---------------------------- MODULE Spec2Model ----------------------------
(***************************************************************************)
(* Model of excel-tui: the formula engine (lexer, shunting-yard reorder,   *)
(* evaluator, function registry, cell coercion), the reference type, the   *)
(* grid with its undo stack, and the event loop of the host application    *)
(* with its formula cache.                                                 *)
(*                                                                         *)
(* Text is a sequence of one-character strings.  A Rust Option is a        *)
(* sequence of length 0 (None) or 1 (Some).  An f32 is modelled as a       *)
(* decimal fixed-point number: [k |-> "fin", m |-> n] stands for           *)
(* n / Scale, with infinities and NaN as separate kinds; every operation   *)
(* rounds to that grid, as an f32 operation rounds to 24 bits, and         *)
(* printing followed by parsing gives the value back, as in Rust.          *)
(***************************************************************************)
EXTENDS Integers, Sequences, FiniteSets, TLC

(***************************************************************************)
(* Characters and text.                                                    *)
(***************************************************************************)
NUL == "NUL"

DigitSeq == <<"0", "1", "2", "3", "4", "5", "6", "7", "8", "9">>

UpperSeq == <<"A", "B", "C", "D", "E", "F", "G", "H", "I", "J", "K", "L", "M",
              "N", "O", "P", "Q", "R", "S", "T", "U", "V", "W", "X", "Y", "Z">>

LowerSeq == <<"a", "b", "c", "d", "e", "f", "g", "h", "i", "j", "k", "l", "m",
              "n", "o", "p", "q", "r", "s", "t", "u", "v", "w", "x", "y", "z">>

Range(s) == {s[i] : i \in DOMAIN s}

IsAsciiDigit(c) == c \in Range(DigitSeq)

IsAsciiAlphabetic(c) == c \in Range(UpperSeq) \cup Range(LowerSeq)

IsAsciiAlphanumeric(c) == IsAsciiDigit(c) \/ IsAsciiAlphabetic(c)

DigitVal(c) == (CHOOSE i \in DOMAIN DigitSeq : DigitSeq[i] = c) - 1

\* 1-based index of a letter in the alphabet, whatever its case
LetterIdx(c) ==
    IF c \in Range(UpperSeq)
    THEN CHOOSE i \in DOMAIN UpperSeq : UpperSeq[i] = c
    ELSE CHOOSE i \in DOMAIN LowerSeq : LowerSeq[i] = c

ToUpperChar(c) == IF c \in Range(LowerSeq) THEN UpperSeq[LetterIdx(c)] ELSE c

ToUppercase(s) == [i \in DOMAIN s |-> ToUpperChar(s[i])]

\* formula.chars().nth(i).unwrap_or_default(), i 0-based
CharAt(s, i) == IF i + 1 \in DOMAIN s THEN s[i + 1] ELSE NUL

\* s[from..to), 0-based, as Rust slices
Slice(s, from, to) == SubSeq(s, from + 1, to)

StartsWith(s, c) == Len(s) > 0 /\ s[1] = c

S_TRUE == <<"T", "R", "U", "E">>
S_FALSE == <<"F", "A", "L", "S", "E">>
S_True == <<"T", "r", "u", "e">>

Abs(n) == IF n < 0 THEN -n ELSE n
Min2(a, b) == IF a <= b THEN a ELSE b
Max2(a, b) == IF a >= b THEN a ELSE b

RECURSIVE NatToText(_)
NatToText(n) ==
    IF n < 10 THEN <<DigitSeq[n + 1]>>
    ELSE NatToText(n \div 10) \o <<DigitSeq[(n % 10) + 1]>>

(***************************************************************************)
(* f32, as decimal fixed point.                                            *)
(***************************************************************************)
Scale == 10 * 10 * 10
\* the largest magnitude kept finite: beyond it a result is an infinity
MaxMant == Scale * Scale
\* more decimal places than any finite value of the grid has
FracLimit == 3 * 3

Fin(m) == [k |-> "fin", m |-> m]
Inf(sign) == [k |-> "inf", m |-> sign]
NaN == [k |-> "nan", m |-> 0]

Sign(n) == IF n < 0 THEN -1 ELSE 1

Norm(m) == IF Abs(m) > MaxMant THEN Inf(Sign(m)) ELSE Fin(m)

\* n / d rounded to the nearest integer, halves away from zero (d > 0)
RoundDiv(n, d) == Sign(n) * ((2 * Abs(n) + d) \div (2 * d))

F32Neg(a) ==
    CASE a.k = "fin" -> Fin(-a.m)
      [] a.k = "inf" -> Inf(-a.m)
      [] OTHER -> NaN

F32Add(a, b) ==
    CASE a.k = "nan" \/ b.k = "nan" -> NaN
      [] a.k = "inf" /\ b.k = "inf" -> IF a.m = b.m THEN a ELSE NaN
      [] a.k = "inf" -> a
      [] b.k = "inf" -> b
      [] OTHER -> Norm(a.m + b.m)

F32Sub(a, b) == F32Add(a, F32Neg(b))

\* the product of two finite mantissas, without an intermediate beyond MaxMant * Scale
MulMant(x, y) ==
    LET ax == Abs(x)
        ay == Abs(y)
        hi == ax \div Scale
        lo == ax % Scale
    IN  IF hi > 0 /\ ay > (2 * MaxMant) \div hi
        THEN Inf(Sign(x) * Sign(y))
        ELSE Norm(Sign(x) * Sign(y) * (hi * ay + RoundDiv(lo * ay, Scale)))

F32Mul(a, b) ==
    CASE a.k = "nan" \/ b.k = "nan" -> NaN
      [] a.k = "inf" /\ b.k = "inf" -> Inf(a.m * b.m)
      [] a.k = "inf" -> IF b.m = 0 THEN NaN ELSE Inf(a.m * Sign(b.m))
      [] b.k = "inf" -> IF a.m = 0 THEN NaN ELSE Inf(b.m * Sign(a.m))
      [] OTHER -> MulMant(a.m, b.m)

F32Div(a, b) ==
    CASE a.k = "nan" \/ b.k = "nan" -> NaN
      [] a.k = "inf" /\ b.k = "inf" -> NaN
      [] a.k = "inf" -> Inf(a.m * Sign(b.m))
      [] b.k = "inf" -> Fin(0)
      [] b.m = 0 -> IF a.m = 0 THEN NaN ELSE Inf(Sign(a.m))
      [] OTHER -> Norm(RoundDiv(a.m * Scale, Abs(b.m)) * Sign(b.m))

\* a * a * ... * a, n times
RECURSIVE PowNat(_, _)
PowNat(a, n) == IF n = 0 THEN Fin(Scale) ELSE F32Mul(PowNat(a, n - 1), a)

\* the integer part of a square root
ISqrt(n) == CHOOSE r \in 0..(MaxMant + 1) : r * r <= n /\ (r + 1) * (r + 1) > n

F32Sqrt(a) ==
    CASE a.k = "nan" -> NaN
      [] a.k = "inf" -> IF a.m = 1 THEN a ELSE NaN
      [] a.m < 0 -> NaN
      [] OTHER -> Fin(ISqrt(a.m * Scale))

\* a.powf(b): exact for an integral exponent; a root for the exponent one half
F32Pow(a, b) ==
    CASE b.k = "fin" /\ b.m = 0 -> Fin(Scale)
      [] a.k = "nan" \/ b.k = "nan" -> NaN
      [] b.k = "inf" -> IF b.m = 1 THEN Inf(1) ELSE Fin(0)
      [] a.k = "inf" -> IF b.m > 0 THEN Inf(1) ELSE Fin(0)
      [] b.m % Scale = 0 ->
            IF b.m > 0 THEN PowNat(a, b.m \div Scale)
            ELSE F32Div(Fin(Scale), PowNat(a, (-b.m) \div Scale))
      [] a.m < 0 -> NaN
      [] 2 * b.m = Scale -> F32Sqrt(a)
      [] OTHER -> NaN

F32Eq(a, b) == a.k # "nan" /\ b.k # "nan" /\ a = b

F32Lt(a, b) ==
    CASE a.k = "nan" \/ b.k = "nan" -> FALSE
      [] a.k = "inf" -> a.m = -1 /\ b # a
      [] b.k = "inf" -> b.m = 1
      [] OTHER -> a.m < b.m

\* the fractional digits of a mantissa, trailing zeros dropped
RECURSIVE FracText(_, _)
FracText(frac, unit) ==
    IF frac = 0 THEN <<>>
    ELSE <<DigitSeq[(frac \div unit) + 1]>> \o FracText(frac % unit, unit \div 10)

\* f32::to_string
F32ToString(a) ==
    CASE a.k = "nan" -> <<"N", "a", "N">>
      [] a.k = "inf" -> IF a.m = 1 THEN <<"i", "n", "f">> ELSE <<"-", "i", "n", "f">>
      [] OTHER ->
            LET mag == Abs(a.m)
                frac == mag % Scale
            IN  (IF a.m < 0 THEN <<"-">> ELSE <<>>)
                    \o NatToText(mag \div Scale)
                    \o (IF frac = 0 THEN <<>> ELSE <<".">> \o FracText(frac, Scale \div 10))

\* the first index >= i (0-based) of s that holds no ASCII digit
DigitRunEnd(s, i) ==
    CHOOSE j \in i..Len(s) :
        /\ \A k \in i..(j - 1) : IsAsciiDigit(CharAt(s, k))
        /\ ~IsAsciiDigit(CharAt(s, j))

\* the value of a digit run, capped at cap
RECURSIVE DigitsValue(_, _)
DigitsValue(ds, cap) ==
    IF ds = <<>> THEN 0
    ELSE Min2(cap, 10 * DigitsValue(SubSeq(ds, 1, Len(ds) - 1), cap) + DigitVal(ds[Len(ds)]))

\* the first fractional digits of a digit run, as a mantissa below Scale
RECURSIVE FracValue(_, _)
FracValue(ds, unit) ==
    IF ds = <<>> \/ unit = 0 THEN 0
    ELSE DigitVal(ds[1]) * unit + FracValue(Tail(ds), unit \div 10)

\* v * 10^e, rounded to the grid
RECURSIVE ScaleBy10(_, _)
ScaleBy10(v, e) ==
    CASE e = 0 \/ v.k # "fin" \/ v.m = 0 -> v
      [] e > 0 -> ScaleBy10(Norm(v.m * 10), e - 1)
      [] OTHER -> ScaleBy10(Fin(RoundDiv(v.m, 10)), e + 1)

ParseFail == [ok |-> FALSE, v |-> NaN]
ParseOk(v) == [ok |-> TRUE, v |-> v]

\* the unsigned part of str::parse::<f32>, last step: the digit runs are read
ParseFinish(s, up, noDigits, mant, hasExp, expStart, expEnd, exp) ==
    CASE up \in {<<"I", "N", "F">>, <<"I", "N", "F", "I", "N", "I", "T", "Y">>} -> ParseOk(Inf(1))
      [] up = <<"N", "A", "N">> -> ParseOk(NaN)
      [] noDigits -> ParseFail
      [] hasExp /\ expStart = expEnd -> ParseFail
      [] expEnd # Len(s) -> ParseFail
      [] hasExp -> ParseOk(ScaleBy10(mant, exp))
      [] OTHER -> ParseOk(mant)

\* the digits of the exponent, between expStart and expEnd
ParseExpValue(s, noDigits, mant, hasExp, negExp, expStart, expEnd) ==
    ParseFinish(s, ToUppercase(s), noDigits, mant, hasExp, expStart, expEnd,
                (IF negExp THEN -1 ELSE 1)
                    * DigitsValue(Slice(s, expStart, expEnd), 2 * FracLimit))

\* the exponent mark and its sign, after the fraction
ParseExpDigits(s, noDigits, mant, fracEnd, hasExp, negExp, expStart) ==
    ParseExpValue(s, noDigits, mant, hasExp, negExp, expStart,
                  IF hasExp THEN DigitRunEnd(s, expStart) ELSE fracEnd)

ParseExponent(s, noDigits, mant, fracEnd, hasExp, signChar) ==
    ParseExpDigits(s, noDigits, mant, fracEnd, hasExp, hasExp /\ signChar = "-",
                   IF hasExp /\ signChar \in {"+", "-"} THEN fracEnd + 2 ELSE fracEnd + 1)

\* the mantissa: the integer digits before intEnd, the fraction digits in
\* [fracStart, fracEnd)
ParseMantissa(s, intEnd, fracStart, fracEnd) ==
    ParseExponent(s, intEnd = 0 /\ fracStart = fracEnd,
                  Norm(DigitsValue(Slice(s, 0, intEnd), MaxMant \div Scale + 1) * Scale
                        + FracValue(Slice(s, fracStart, fracEnd), Scale \div 10)),
                  fracEnd, CharAt(s, fracEnd) \in {"e", "E"}, CharAt(s, fracEnd + 1))

ParseFraction(s, intEnd, fracStart) ==
    ParseMantissa(s, intEnd, fracStart, DigitRunEnd(s, fracStart))

\* the unsigned part of str::parse::<f32>
ParseUnsignedF32(s) ==
    ParseFraction(s, DigitRunEnd(s, 0),
                  IF CharAt(s, DigitRunEnd(s, 0)) = "." THEN DigitRunEnd(s, 0) + 1
                  ELSE DigitRunEnd(s, 0))

\* the sign of str::parse::<f32> applied to the unsigned parse r
ParseSigned(s, r) ==
    IF r.ok /\ s # <<>> /\ s[1] = "-" THEN ParseOk(F32Neg(r.v)) ELSE r

\* str::parse::<f32>: [ok |-> whether it parsed, v |-> the value]
ParseF32(s) ==
    ParseSigned(s, ParseUnsignedF32(IF s # <<>> /\ s[1] \in {"+", "-"} THEN Tail(s) ELSE s))

(***************************************************************************)
(* The build: integer overflow panics in a debug build and wraps in a      *)
(* release build.  The application state follows.                          *)
(***************************************************************************)
VARIABLES build,
          original,
          data, undo, redo, col_widths,
          focused_area, editor_value, active_cell, selection_end, formula_cache,
          phase, last_event, n_events,
          cell_text, pc, parsed, output_queue, result,
          ref_call, ref_input, ref_output

gridVars == <<data, undo, redo, col_widths>>
appVars == <<focused_area, editor_value, active_cell, selection_end, formula_cache,
             phase, last_event, n_events>>
evalVars == <<cell_text, pc, parsed, output_queue, result>>
refVars == <<ref_call, ref_input, ref_output>>
vars == <<build, original, gridVars, appVars, evalVars, refVars>>

\* usize::MAX, what 0 - 1 wraps to in a release build
UsizeMax == 2^30 + (2^30 - 1)

(***************************************************************************)
(* References (references.rs).                                             *)
(***************************************************************************)
None == <<>>
Some(x) == <<x>>

Reference(row, col) == [row |-> row, col |-> col]

\* Option's ordering: None before Some
OptLess(x, y) == \/ x = None /\ y # None
                 \/ x # None /\ y # None /\ x[1] < y[1]

OptMin(x, y) == IF OptLess(y, x) THEN y ELSE x
OptMax(x, y) == IF OptLess(x, y) THEN y ELSE x

\* an order that compares the columns before the rows
RefLess_col_first(a, b) == OptLess(a.col, b.col) \/ (a.col = b.col /\ OptLess(a.row, b.row))

\* #[derive(PartialOrd, Ord)] on struct Reference { row, col }
RefLess(a, b) == OptLess(a.row, b.row) \/ (a.row = b.row /\ OptLess(a.col, b.col))

\* BTreeSet::first
RefFirst(set) == CHOOSE r \in set : \A o \in set : o = r \/ RefLess(r, o)

\* BTreeSet::iter
RECURSIVE RefIter(_)
RefIter(set) ==
    IF set = {} THEN <<>>
    ELSE LET r == RefFirst(set) IN <<r>> \o RefIter(set \ {r})

\* a range that runs from self to other without taking the minimum and the
\* maximum of each coordinate
RefRange_unordered(self, other) ==
    IF None \in {self.row, self.col, other.row, other.col}
    THEN [st |-> "Panic", cells |-> <<>>]
    ELSE LET w == Max2(0, other.col[1] - self.col[1] + 1)
             n == Max2(0, other.row[1] - self.row[1] + 1) * w
         IN  [st |-> "Ok",
              cells |-> [i \in 1..n |->
                            Reference(Some(self.row[1] + ((i - 1) \div w)),
                                      Some(self.col[1] + ((i - 1) % w)))]]

\* Reference::range: [st |-> "Ok" or "Panic", cells |-> the cells, row-major]
RefRange(self, other) ==
    LET min_row == OptMin(self.row, other.row)
        min_col == OptMin(self.col, other.col)
        max_row == OptMax(self.row, other.row)
        max_col == OptMax(self.col, other.col)
    IN  IF None \in {min_row, min_col, max_row, max_col}
        THEN [st |-> "Panic", cells |-> <<>>]
        ELSE LET w == max_col[1] - min_col[1] + 1
                 n == (max_row[1] - min_row[1] + 1) * w
             IN  [st |-> "Ok",
                  cells |-> [i \in 1..n |->
                                Reference(Some(min_row[1] + ((i - 1) \div w)),
                                          Some(min_col[1] + ((i - 1) % w)))]]

\* Reference::alpha_to_index on ASCII letters (at most six, as u32 holds)
RECURSIVE AlphaToIndex(_)
AlphaToIndex(alpha) ==
    IF alpha = <<>> THEN 0
    ELSE 26 * AlphaToIndex(SubSeq(alpha, 1, Len(alpha) - 1))
            + (IF alpha[Len(alpha)] \in Range(UpperSeq)
               THEN LetterIdx(alpha[Len(alpha)])
               ELSE LetterIdx(alpha[Len(alpha)]) + 32)

\* Reference::index_to_alpha
RECURSIVE IndexToAlpha(_)
IndexToAlpha(index) ==
    IF index = 0 THEN <<>>
    ELSE IndexToAlpha(index \div 26)
            \o <<(IF index % 26 = 0 THEN "@" ELSE UpperSeq[index % 26])>>

\* Reference::alpha_to_index: None as soon as a character is no ASCII letter
alpha_to_index(alpha) ==
    IF \E i \in DOMAIN alpha : ~IsAsciiAlphabetic(alpha[i]) THEN None
    ELSE Some(AlphaToIndex(alpha))

\* Reference::index_to_alpha
index_to_alpha(index) == Some(IndexToAlpha(index))

\* Reference::to_string: [st |-> "Ok" or "Panic", text |-> the text]
RefToString(self) ==
    CASE self.row # None /\ self.col # None ->
            \* row + 1 overflows on usize::MAX
            IF self.row[1] = UsizeMax /\ build = "debug"
            THEN [st |-> "Panic", text |-> <<>>]
            ELSE [st |-> "Ok",
                  text |-> <<"(">> \o index_to_alpha(self.col[1] + 1)[1] \o <<",">>
                            \o NatToText(IF self.row[1] = UsizeMax THEN 0
                                          ELSE self.row[1] + 1)
                            \o <<")">>]
      [] self.row # None -> [st |-> "Ok", text |-> NatToText(self.row[1])]
      [] self.col # None -> [st |-> "Panic", text |-> <<>>]
      [] OTHER -> [st |-> "Ok", text |-> <<>>]

\* Reference::get_cell
RefGetCell(r) ==
    [row |-> IF r.row = None THEN 0 ELSE r.row[1],
     col |-> IF r.col = None THEN 0 ELSE r.col[1]]

\* the first index >= i (0-based) of s that holds no ASCII letter
AlphaRunEnd(s, i) ==
    CHOOSE j \in i..Len(s) :
        /\ \A k \in i..(j - 1) : IsAsciiAlphabetic(CharAt(s, k))
        /\ ~IsAsciiAlphabetic(CharAt(s, j))

\* the digits a usize can hold
UsizeDigits == 4 * 5

\* parse_reference: [st |-> "None", "Some" or "Panic", ref |-> the reference]
ParseReference(text) ==
    LET colEnd == AlphaRunEnd(text, 0)
        pointer == DigitRunEnd(text, colEnd)
        col == Slice(text, 0, colEnd)
        row == Slice(text, colEnd, pointer)
        rowOk == Len(row) > 0 /\ Len(row) < UsizeDigits
        rowVal == DigitsValue(row, UsizeMax \div 10 - 1)
        noRef == Reference(None, None)
    IN  CASE (Len(row) = 0 /\ Len(col) = 0) \/ pointer # Len(text) ->
                [st |-> "None", ref |-> noRef]
          [] rowOk /\ rowVal = 0 /\ build = "debug" ->
                [st |-> "Panic", ref |-> noRef]
          [] OTHER ->
                [st |-> "Some",
                 ref |-> Reference(
                     IF rowOk THEN Some(IF rowVal = 0 THEN UsizeMax ELSE rowVal - 1)
                     ELSE None,
                     IF Len(col) > 0 THEN Some(AlphaToIndex(col) - 1) ELSE None)]

(***************************************************************************)
(* Tokens (formulas.rs).                                                   *)
(***************************************************************************)
OPERATORS == {<<"-">>, <<"%">>, <<"^">>, <<"*">>, <<"/">>, <<"+">>, <<"&">>, <<"=">>,
              <<">", "=">>, <<"<", "=">>, <<"<", ">">>, <<"<">>, <<">">>, <<"@">>,
              <<"#">>, <<":">>, <<",">>, <<" ">>}

OperandTypes == {"String", "Boolean", "Number", "Reference"}

\* Token::new
Token(token_type, content) ==
    [token_type |-> token_type, content |-> content,
     function_n_args |-> None, reference_set |-> None]

\* Token::function
TokenFunction(content, n_args) ==
    [token_type |-> "Function", content |-> content,
     function_n_args |-> Some(n_args), reference_set |-> None]

\* Token::reference
TokenReference(refs) ==
    [token_type |-> "Reference", content |-> <<>>,
     function_n_args |-> None, reference_set |-> Some(refs)]

\* Token::default
TokenDefault == Token("String", <<>>)

S_SUM == <<"S", "U", "M">>
S_SQRT == <<"S", "Q", "R", "T">>
S_IF == <<"I", "F">>
S_PI == <<"P", "I">>
S_RAND == <<"R", "A", "N", "D">>
S_AVERAGE == <<"A", "V", "E", "R", "A", "G", "E">>
S_MEDIAN == <<"M", "E", "D", "I", "A", "N">>

\* the keys of get_funcs
FuncNames == {S_SUM, S_SQRT, S_IF, S_PI, S_RAND, S_AVERAGE, S_MEDIAN}

(***************************************************************************)
(* The lexer: parse_formula.  A result is [st |-> "Ok", "Err" or "Panic",  *)
(* toks |-> the token stream].                                             *)
(***************************************************************************)
LexOk(toks) == [st |-> "Ok", toks |-> toks]
LexErr == [st |-> "Err", toks |-> <<>>]
LexPanic == [st |-> "Panic", toks |-> <<>>]

\* find_close_paren, from idx on with the depth reached so far: None or Some(index)
RECURSIVE FindCloseParenFrom(_, _, _)
FindCloseParenFrom(f, idx, paren_depth) ==
    IF idx >= Len(f) THEN None
    ELSE LET d == CASE CharAt(f, idx) = "(" -> paren_depth + 1
                    [] CharAt(f, idx) = ")" -> paren_depth - 1
                    [] OTHER -> paren_depth
         IN  IF d = 0 THEN Some(idx) ELSE FindCloseParenFrom(f, idx + 1, d)

FindCloseParen(f, start_idx) == FindCloseParenFrom(f, start_idx, 0)

\* the first index >= i (0-based) of s that holds no ASCII letter or digit
AlnumRunEnd(s, i) ==
    CHOOSE j \in i..Len(s) :
        /\ \A k \in i..(j - 1) : IsAsciiAlphanumeric(CharAt(s, k))
        /\ ~IsAsciiAlphanumeric(CharAt(s, j))

\* the index of the next double quote at or after i, or the length
QuoteEnd(s, i) ==
    CHOOSE j \in i..Max2(i, Len(s)) :
        /\ \A k \in i..(j - 1) : k < Len(s) /\ CharAt(s, k) # "\""
        /\ (j >= Len(s) \/ CharAt(s, j) = "\"")

\* the while loop of parse_formula, from parse_idx on
RECURSIVE LexLoop(_, _, _, _)
LexLoop(f, parse_idx, toks, func_close_parens) ==
    IF parse_idx >= Len(f) THEN LexOk(toks)
    ELSE
    LET current_char == CharAt(f, parse_idx)
        next_char == CharAt(f, parse_idx + 1)
    IN  CASE IsAsciiDigit(current_char) ->
                LET e == DigitRunEnd(f, parse_idx)
                IN  LexLoop(f, e, Append(toks, Token("Number", Slice(f, parse_idx, e))),
                            func_close_parens)
          [] <<current_char>> \in OPERATORS ->
                IF <<current_char, next_char>> \in OPERATORS
                THEN LexLoop(f, parse_idx + 2,
                             Append(toks, Token("Operator", <<current_char, next_char>>)),
                             func_close_parens)
                ELSE LexLoop(f, parse_idx + 1,
                             Append(toks, Token("Operator", <<current_char>>)),
                             func_close_parens)
          [] IsAsciiAlphabetic(current_char) ->
                LET e == AlnumRunEnd(f, parse_idx)
                    word == ToUppercase(Slice(f, parse_idx, e))
                    r == ParseReference(word)
                IN  CASE word \in {S_TRUE, S_FALSE} ->
                            LexLoop(f, e, Append(toks, Token("Boolean", word)),
                                    func_close_parens)
                      [] word \in FuncNames ->
                            IF e >= Len(f) THEN LexLoop(f, e + 1, toks, func_close_parens)
                            ELSE IF CharAt(f, e) = "("
                            THEN LET c == FindCloseParen(f, e)
                                 IN  LexLoop(f, e + 1, Append(toks, TokenFunction(word, 0)),
                                             IF c = None THEN func_close_parens
                                             ELSE func_close_parens \cup {c[1]})
                            ELSE LexErr
                      [] r.st = "Panic" -> LexPanic
                      [] r.st = "Some" ->
                            LexLoop(f, e, Append(toks, TokenReference({r.ref})),
                                    func_close_parens)
                      [] OTHER -> LexLoop(f, e + 1, toks, func_close_parens)
          [] current_char = "(" ->
                LexLoop(f, parse_idx + 1, Append(toks, Token("LeftParen", <<>>)),
                        func_close_parens)
          [] current_char = ")" ->
                LexLoop(f, parse_idx + 1,
                        Append(toks, Token(IF parse_idx \in func_close_parens
                                           THEN "FuncClose" ELSE "RightParen", <<>>)),
                        func_close_parens)
          [] current_char = "\"" ->
                LET e == QuoteEnd(f, parse_idx + 1)
                IN  LexLoop(f, e + 1,
                            Append(toks, Token("String", Slice(f, parse_idx + 1, e))),
                            func_close_parens)
          [] OTHER -> LexLoop(f, parse_idx + 1, toks, func_close_parens)

\* the sweep over the dual-meaning operators "-", "," and " ", from idx on;
\* to_remove collects the indices of the spaces to drop
RECURSIVE DualMeaning(_, _, _)
DualMeaning(toks, idx, to_remove) ==
    IF idx >= Len(toks) - 1 THEN [st |-> "Ok", toks |-> toks, to_remove |-> to_remove]
    ELSE
    LET t == toks[idx + 1]
        isOp == t.token_type = "Operator"
        refsAround == /\ toks[idx].token_type = "Reference"
                      /\ toks[idx + 2].token_type = "Reference"
    IN  CASE isOp /\ t.content = <<"-">>
                  /\ (idx = 0 \/ toks[idx].token_type # "Number") ->
                DualMeaning([toks EXCEPT ![idx + 1].content = <<"-", "1">>],
                            idx + 1, to_remove)
          [] isOp /\ t.content = <<",">> ->
                IF idx = 0 THEN [st |-> "Err", toks |-> <<>>, to_remove |-> {}]
                ELSE IF ~refsAround
                THEN DualMeaning([toks EXCEPT ![idx + 1].token_type = "FuncArgSep"],
                                 idx + 1, to_remove)
                ELSE DualMeaning(toks, idx + 1, to_remove)
          [] isOp /\ t.content = <<" ">> ->
                \* parsed[idx - 1] with idx = 0: the subtraction overflows, or the
                \* wrapped index is out of bounds
                IF idx = 0 THEN [st |-> "Panic", toks |-> <<>>, to_remove |-> {}]
                ELSE IF ~refsAround
                THEN DualMeaning(toks, idx + 1, to_remove \cup {idx})
                ELSE DualMeaning(toks, idx + 1, to_remove)
          [] OTHER -> DualMeaning(toks, idx + 1, to_remove)

\* parsed.remove(idx) for every idx of to_remove
RemoveIndices(toks, to_remove) ==
    LET keep == {i \in 0..(Len(toks) - 1) : i \notin to_remove}
        nth(k) == CHOOSE i \in keep : Cardinality({j \in keep : j < i}) = k - 1
    IN  [k \in 1..Cardinality(keep) |-> toks[nth(k) + 1]]

\* the inner loop that counts the arguments of the function at idx
RECURSIVE CountArgs(_, _, _, _, _)
CountArgs(toks, idx, function_idx, function_depth, args) ==
    IF function_idx >= Len(toks) THEN args
    ELSE
    LET ty == toks[function_idx + 1].token_type
        d == CASE ty = "Function" -> function_depth + 1
               [] ty = "FuncClose" -> function_depth - 1
               [] OTHER -> function_depth
    IN  CASE d = 0 /\ function_idx = idx + 1 -> 0
          [] d = 0 -> args
          [] d = 1 /\ ty = "FuncArgSep" ->
                CountArgs(toks, idx, function_idx + 1, d, args + 1)
          [] OTHER -> CountArgs(toks, idx, function_idx + 1, d, args)

\* the loop that sets function_n_args
SetFunctionArgs(toks) ==
    [i \in DOMAIN toks |->
        IF toks[i].token_type = "Function"
        THEN [toks[i] EXCEPT !.function_n_args = Some(CountArgs(toks, i - 1, i - 1, 0, 1))]
        ELSE toks[i]]

\* the end of parse_formula: the tokens marked by the dual-meaning sweep are
\* removed and the arguments of the functions counted
SweptTokens(swept) ==
    CASE swept.st = "Panic" -> LexPanic
      [] swept.st = "Err" -> LexErr
      [] OTHER -> LexOk(SetFunctionArgs(RemoveIndices(swept.toks, swept.to_remove)))

\* the dual-meaning sweep over the outcome raw of the first loop.  On an empty
\* stream 0..parsed.len() - 1 fails: the subtraction overflows, or the wrapped
\* range indexes out of bounds
SweepTokens(raw) ==
    CASE raw.st # "Ok" -> raw
      [] raw.toks = <<>> -> LexPanic
      [] OTHER -> SweptTokens(DualMeaning(raw.toks, 0, {}))

\* parse_formula
ParseFormula(f) == SweepTokens(LexLoop(f, 0, <<>>, {}))

\* a precedence table with the additive and the multiplicative rows exchanged
get_operator_precedence_exchanged(operator) ==
    CASE operator = <<":">> -> 9
      [] operator \in {<<",">>, <<" ">>} -> 8
      [] operator = <<"-", "1">> -> 7
      [] operator = <<"%">> -> 6
      [] operator = <<"^">> -> 5
      [] operator \in {<<"*">>, <<"/">>} -> 3
      [] operator \in {<<"+">>, <<"-">>} -> 4
      [] operator = <<"&">> -> 2
      [] operator \in {<<"=">>, <<"<">>, <<">">>, <<"<", "=">>, <<">", "=">>, <<"<", ">">>} -> 1
      [] OTHER -> 0

(***************************************************************************)
(* The reorder pass of eval_formula (shunting yard).  A result is          *)
(* [st |-> "Ok", "Hang" or "Panic", out |-> the postfix program].          *)
(***************************************************************************)
\* get_operator_precedence
get_operator_precedence(operator) ==
    CASE operator = <<":">> -> 9
      [] operator \in {<<",">>, <<" ">>} -> 8
      [] operator = <<"-", "1">> -> 7
      [] operator = <<"%">> -> 6
      [] operator = <<"^">> -> 5
      [] operator \in {<<"*">>, <<"/">>} -> 4
      [] operator \in {<<"+">>, <<"-">>} -> 3
      [] operator = <<"&">> -> 2
      [] operator \in {<<"=">>, <<"<">>, <<">">>, <<"<", "=">>, <<">", "=">>, <<"<", ">">>} -> 1
      [] OTHER -> 0

Top(stack) == stack[Len(stack)]
Pop(stack) == SubSeq(stack, 1, Len(stack) - 1)

\* the condition under which the RightParen loop moves a popped entry to the output
RightParenMoves(x) == x.token_type # "LeftParen" \/ x.token_type # "Function"

\* the condition under which the FuncClose and FuncArgSep loops move a popped entry
FuncCloseMoves(x) ==
    \/ x.token_type # "LeftParen"
    \/ x.token_type # "Function"
    \/ x.token_type # "FuncArgSep"

\* while let Some(x) = operator_stack.pop(): x goes to the output, or is dropped
\* and the loop ends.  which is "RightParen" or "FuncClose" (also FuncArgSep's loop).
RECURSIVE PopGroup(_, _, _)
PopGroup(which, out, ops) ==
    IF ops = <<>> THEN [out |-> out, ops |-> ops]
    ELSE LET x == Top(ops)
             moves == IF which = "RightParen" THEN RightParenMoves(x) ELSE FuncCloseMoves(x)
         IN  IF moves THEN PopGroup(which, Append(out, x), Pop(ops))
             ELSE [out |-> out, ops |-> Pop(ops)]

RECURSIVE PopOperators(_, _, _)

\* a while loop that pops only the entries of strictly higher precedence
PopOperators_strictly_higher(current_precedence, out, ops) ==
    LET top == IF ops = <<>> THEN TokenDefault ELSE Top(ops)
    IN  IF get_operator_precedence(top.content) > current_precedence
        THEN IF ops = <<>> THEN [hang |-> TRUE, out |-> out, ops |-> ops]
             ELSE PopOperators(current_precedence, Append(out, top), Pop(ops))
        ELSE [hang |-> FALSE, out |-> out, ops |-> ops]

\* the while loop of the Operator arm: [hang |-> it never ends, out, ops]
PopOperators(current_precedence, out, ops) ==
    LET top == IF ops = <<>> THEN TokenDefault ELSE Top(ops)
    IN  IF get_operator_precedence(top.content) >= current_precedence
        THEN IF ops = <<>> THEN [hang |-> TRUE, out |-> out, ops |-> ops]
             ELSE PopOperators(current_precedence, Append(out, top), Pop(ops))
        ELSE [hang |-> FALSE, out |-> out, ops |-> ops]

\* operator_stack, emptied from its top
Reverse(s) == [i \in DOMAIN s |-> s[Len(s) + 1 - i]]

ReorderRes(st, out) == [st |-> st, out |-> out]

RECURSIVE ReorderLoop(_, _, _, _, _)
ReorderLoop(toks, i, out, ops, funcs) ==
    IF i > Len(toks) THEN ReorderRes("Ok", out \o Reverse(ops))
    ELSE
    LET token == toks[i]
        ty == token.token_type
    IN  CASE ty = "LeftParen" -> ReorderLoop(toks, i + 1, out, Append(ops, token), funcs)
          [] ty = "RightParen" ->
                LET g == PopGroup("RightParen", out, ops)
                IN  ReorderLoop(toks, i + 1, g.out, g.ops, funcs)
          [] ty = "Function" -> ReorderLoop(toks, i + 1, out, ops, Append(funcs, token))
          [] ty = "FuncClose" ->
                LET g == PopGroup("FuncClose", out, ops)
                IN  IF funcs = <<>> THEN ReorderRes("Panic", <<>>)
                    ELSE ReorderLoop(toks, i + 1, Append(g.out, Top(funcs)), g.ops, Pop(funcs))
          [] ty = "FuncArgSep" ->
                LET g == PopGroup("FuncClose", out, ops)
                IN  ReorderLoop(toks, i + 1, g.out, g.ops, funcs)
          [] ty = "Operator" ->
                LET p == PopOperators(get_operator_precedence(token.content), out, ops)
                IN  IF p.hang THEN ReorderRes("Hang", <<>>)
                    ELSE ReorderLoop(toks, i + 1, p.out, Append(p.ops, token), funcs)
          [] OTHER -> ReorderLoop(toks, i + 1, Append(out, token), ops, funcs)

\* a token other than a String
NotString(t) == t.token_type # "String"

\* a reorder pass whose operand arm lets String tokens fall through
Reorder_strings_dropped(toks) == ReorderLoop(SelectSeq(toks, NotString), 1, <<>>, <<>>, <<>>)

\* the first loop of eval_formula and the draining of the operator stack
Reorder(toks) == ReorderLoop(toks, 1, <<>>, <<>>, <<>>)

(***************************************************************************)
(* The grid accessor (spreadsheet.rs).  data is the sequence of the rows'  *)
(* contents; a cell is [row, col], 0-based.                                *)
(***************************************************************************)
SPREADSHEET_MAX_ROWS == 2
SPREADSHEET_MAX_COLS == 2
DEFAULT_COL_WIDTH == 10

SpreadsheetCell(row, col) == [row |-> row, col |-> col]

\* Spreadsheet::in_spreadsheet; s holds the fields data and col_widths
in_spreadsheet(s, cell) ==
    /\ cell.row < Len(s.data)
    /\ cell.col < Len(s.data[cell.row + 1])
    /\ Len(s.col_widths) > cell.col

\* a read that clamps the address to the last populated row and column
get_cell_clamped(s, cell) ==
    IF s.data = <<>> \/ s.data[Len(s.data)] = <<>> THEN <<>>
    ELSE LET row == IF cell.row < Len(s.data) THEN cell.row + 1 ELSE Len(s.data)
             col == IF cell.col < Len(s.data[row]) THEN cell.col + 1 ELSE Len(s.data[row])
         IN  IF s.data[row] = <<>> THEN <<>> ELSE s.data[row][col]

\* Spreadsheet::get_cell
get_cell(s, cell) ==
    IF ~in_spreadsheet(s, cell) THEN <<>> ELSE s.data[cell.row + 1][cell.col + 1]

(***************************************************************************)
(* The evaluator.  An evaluation ends "Ok" with a token, "Err" with the    *)
(* failure value, or aborts: "Panic" (an unwrap or an index fails),        *)
(* "Hang" (the reorder loop never ends) or "Overflow" (the recursion       *)
(* through formula cells exceeds every depth).                             *)
(***************************************************************************)
Aborts == {"Panic", "Hang", "Overflow"}

EvalOk(tok) == [st |-> "Ok", tok |-> tok]
EvalEnd(st) == [st |-> st, tok |-> TokenDefault]

\* Token::as_f32 on the parse r of the content: [st |-> "Ok" or "Panic", v |-> the value]
AsF32Of(tok, r) ==
    CASE tok.token_type = "Number" ->
            IF r.ok THEN [st |-> "Ok", v |-> r.v] ELSE [st |-> "Panic", v |-> NaN]
      [] tok.token_type = "Boolean" ->
            [st |-> "Ok", v |-> IF tok.content = S_TRUE THEN Fin(Scale) ELSE Fin(0)]
      [] OTHER -> [st |-> "Ok", v |-> Fin(0)]

\* Token::as_f32
as_f32(tok) == AsF32Of(tok, ParseF32(tok.content))

\* Token::is_number.  The content of a Reference token is the empty text, whose
\* only piece is no reference.
is_number(tok) ==
    CASE tok.token_type \in {"Boolean", "Number"} -> TRUE
      [] tok.token_type = "String" -> ParseF32(tok.content).ok
      [] tok.token_type = "Reference" -> ParseReference(tok.content).st = "Some"
      [] OTHER -> FALSE

\* apply_arithmetic_operator
apply_arithmetic_operator(a, b, operator) ==
    CASE operator = <<"+">> -> F32Add(a, b)
      [] operator = <<"-">> -> F32Sub(a, b)
      [] operator = <<"*">> -> F32Mul(a, b)
      [] operator = <<"/">> -> F32Div(a, b)
      [] operator = <<"^">> -> F32Pow(a, b)
      [] OTHER -> a

\* apply_comparison_operator
apply_comparison_operator(a, b, operator) ==
    CASE operator = <<"=">> -> F32Eq(a, b)
      [] operator = <<"<">> -> F32Lt(a, b)
      [] operator = <<">">> -> F32Lt(b, a)
      [] operator = <<"<", "=">> -> F32Lt(a, b) \/ F32Eq(a, b)
      [] operator = <<">", "=">> -> F32Lt(b, a) \/ F32Eq(a, b)
      [] operator = <<"<", ">">> -> ~F32Eq(a, b)
      [] OTHER -> FALSE

\* apply_reference_operator: [st |-> "Ok" or "Panic", set |-> the set]
apply_reference_operator(a, b, operator) ==
    CASE operator = <<":">> ->
            IF a = {} \/ b = {} THEN [st |-> "Panic", set |-> {}]
            ELSE LET r == RefRange(RefFirst(a), RefFirst(b))
                 IN  [st |-> r.st, set |-> Range(r.cells)]
      [] operator = <<",">> -> [st |-> "Ok", set |-> a \cup b]
      [] operator = <<" ">> -> [st |-> "Ok", set |-> a \cap b]
      [] OTHER -> [st |-> "Ok", set |-> a]

\* a classification that uppercases the text whatever its type
Concatenated_uppercased(text) ==
    CASE ParseF32(text).ok -> Token("Number", ToUppercase(text))
      [] ToUppercase(text) \in {S_TRUE, S_FALSE} -> Token("Boolean", ToUppercase(text))
      [] OTHER -> Token("String", ToUppercase(text))

\* a classification that keeps a Boolean word as it was written
Concatenated_as_written(text) ==
    CASE ParseF32(text).ok -> Token("Number", text)
      [] ToUppercase(text) \in {S_TRUE, S_FALSE} -> Token("Boolean", text)
      [] OTHER -> Token("String", text)

\* the type and content the "&" arm gives the concatenated text
Concatenated(text) ==
    CASE ParseF32(text).ok -> Token("Number", text)
      [] ToUppercase(text) \in {S_TRUE, S_FALSE} -> Token("Boolean", ToUppercase(text))
      [] OTHER -> Token("String", text)

PI_MILLIS == 3142
\* std::f32::consts::PI
F32_PI == Fin(PI_MILLIS)
\* rand::random: some value of [0, 1)
RandValue == Fin(CHOOSE m \in 0..(Scale - 1) : TRUE)

CallOk(toks) == [st |-> "Ok", toks |-> toks]
CallEnd(st) == [st |-> st, toks |-> <<>>]

\* Sqrt::call
SqrtCall(args) ==
    IF Len(args) = 1 /\ args[1].token_type = "Number"
    THEN LET r == ParseF32(args[1].content)
         IN  IF r.ok THEN CallOk(<<Token("Number", F32ToString(F32Sqrt(r.v)))>>)
             ELSE CallEnd("Panic")
    ELSE CallEnd("Err")

\* If::call
IfCall(args) ==
    CASE Len(args) < 2 -> CallEnd("Err")
      [] args[1].token_type # "Boolean" -> CallEnd("Err")
      [] as_f32(args[1]).v = Fin(Scale) -> CallOk(<<args[2]>>)
      [] OTHER -> CallOk(<<IF Len(args) >= 3 THEN args[3] ELSE Token("Boolean", S_FALSE)>>)

\* Pi::call
PiCall(args) ==
    IF Len(args) > 0 THEN CallEnd("Err")
    ELSE CallOk(<<Token("Number", F32ToString(F32_PI))>>)

\* Rand::call
RandCall(args) ==
    IF Len(args) > 0 THEN CallEnd("Err")
    ELSE CallOk(<<Token("Number", F32ToString(RandValue))>>)

RECURSIVE F32Sum(_)
F32Sum(nums) ==
    IF nums = <<>> THEN Fin(0)
    ELSE F32Add(F32Sum(SubSeq(nums, 1, Len(nums) - 1)), nums[Len(nums)])

\* nums.sort_by(partial_cmp): ascending, by insertion
RECURSIVE F32Sort(_)
F32Sort(nums) ==
    IF Len(nums) <= 1 THEN nums
    ELSE LET rest == F32Sort(Tail(nums))
             x == nums[1]
             k == Cardinality({i \in DOMAIN rest : F32Lt(rest[i], x)})
         IN  SubSeq(rest, 1, k) \o <<x>> \o SubSeq(rest, k + 1, Len(rest))

RECURSIVE EvalFormulaD(_, _, _)
RECURSIVE cell_to_token(_, _, _)
RECURSIVE GatherRefs(_, _, _)
RECURSIVE GatherNums(_, _, _)
RECURSIVE EvalLoop(_, _, _, _, _)

\* Spreadsheet::get_cell_value
get_cell_value(s, cell, depth) == cell_to_token(get_cell(s, cell), s, depth)

\* cell_to_token; depth counts the formula cells that may still be entered
cell_to_token(cell_value, s, depth) ==
    IF StartsWith(cell_value, "=")
    THEN IF depth = 0 THEN EvalEnd("Overflow")
         ELSE EvalFormulaD(Tail(cell_value), s, depth - 1)
    ELSE EvalOk(Token(
            CASE \A i \in DOMAIN cell_value :
                    IsAsciiDigit(cell_value[i]) \/ cell_value[i] = "." -> "Number"
              [] ToUppercase(cell_value) = S_FALSE \/ ToUppercase(cell_value) = S_True ->
                    "Boolean"
              [] OTHER -> "Number",
            cell_value))

\* one referenced cell of the filter and map over a reference set: value is
\* its get_cell_value, rest the outcome for the cells after it
GatherRef(value, rest, isnum, f) ==
    CASE value.st = "Err" -> [st |-> "Panic", nums |-> <<>>]
      [] value.st # "Ok" -> [st |-> value.st, nums |-> <<>>]
      [] isnum /\ f.st # "Ok" -> [st |-> "Panic", nums |-> <<>>]
      [] rest.st # "Ok" -> rest
      [] ~isnum -> rest
      [] OTHER -> [st |-> "Ok", nums |-> <<f.v>> \o rest.nums]

GatherCell(value, rest) == GatherRef(value, rest, is_number(value.tok), as_f32(value.tok))

\* the numbers a reference set contributes to SUM, AVERAGE and MEDIAN:
\* [st |-> "Ok" or an abort, nums |-> the values], refs in the set's order
GatherRefs(refs, s, depth) ==
    IF refs = <<>> THEN [st |-> "Ok", nums |-> <<>>]
    ELSE GatherCell(get_cell_value(s, RefGetCell(refs[1]), depth),
                    GatherRefs(Tail(refs), s, depth))

\* one argument of the loop: its own number, then the numbers refd of its
\* reference set, then the numbers rest of the arguments after it
GatherArg(isnum, f, refd, rest) ==
    CASE isnum /\ f.st # "Ok" -> [st |-> "Panic", nums |-> <<>>]
      [] refd.st # "Ok" -> refd
      [] rest.st # "Ok" -> rest
      [] OTHER -> [st |-> "Ok",
                   nums |-> (IF isnum THEN <<f.v>> ELSE <<>>) \o refd.nums \o rest.nums]

\* the loop over the arguments that SUM, AVERAGE and MEDIAN share
GatherNums(args, s, depth) ==
    IF args = <<>> THEN [st |-> "Ok", nums |-> <<>>]
    ELSE GatherArg(is_number(args[1]), as_f32(args[1]),
                   IF args[1].reference_set = None THEN [st |-> "Ok", nums |-> <<>>]
                   ELSE GatherRefs(RefIter(args[1].reference_set[1]), s, depth),
                   GatherNums(Tail(args), s, depth))

\* Sum::call, on the outcome g of its loop
SumCall(g) ==
    IF g.st # "Ok" THEN CallEnd(g.st)
    ELSE CallOk(<<Token("Number", F32ToString(F32Sum(g.nums)))>>)

\* Average::call, on the outcome g of its loop
AverageCall(g) ==
    IF g.st # "Ok" THEN CallEnd(g.st)
    ELSE CallOk(<<Token("Number",
            F32ToString(F32Div(F32Sum(g.nums), Fin(Len(g.nums) * Scale))))>>)

\* the middle of the sorted numbers
Middle(sorted, n) ==
    IF n % 2 = 1 THEN sorted[n \div 2 + 1]
    ELSE F32Div(F32Add(sorted[n \div 2 + 1], sorted[n \div 2]), Fin(2 * Scale))

\* Median::call, on the outcome g of its loop
MedianCall(g) ==
    CASE g.st # "Ok" -> CallEnd(g.st)
      [] Len(g.nums) >= 2 /\ \E i \in DOMAIN g.nums : g.nums[i].k = "nan" -> CallEnd("Panic")
      [] g.nums = <<>> -> CallEnd("Panic")
      [] OTHER -> CallOk(<<Token("Number",
                        F32ToString(Middle(F32Sort(g.nums), Len(g.nums))))>>)

\* func.call for the function registered under name; g is the outcome of the
\* loop over the arguments, which SUM, AVERAGE and MEDIAN run
CallNamed(name, args, g) ==
    CASE name = S_SUM -> SumCall(g)
      [] name = S_SQRT -> SqrtCall(args)
      [] name = S_IF -> IfCall(args)
      [] name = S_PI -> PiCall(args)
      [] name = S_RAND -> RandCall(args)
      [] name = S_AVERAGE -> AverageCall(g)
      [] name = S_MEDIAN -> MedianCall(g)
      [] OTHER -> CallEnd("Err")

FuncCall(name, args, s, depth) == CallNamed(name, args, GatherNums(args, s, depth))

StepOk(stack) == [st |-> "Ok", stack |-> stack]
StepEnd(st) == [st |-> st, stack |-> <<>>]

\* the Operator arm on the top a of the operand stack, the stack rest below it
\* and the top b of rest; fa and fb are a.as_f32 and b.as_f32
OperatorArm(operator, a, rest, b, fa, fb) ==
    CASE operator \in {<<":">>, <<",">>, <<" ">>} ->
            IF rest = <<>> THEN StepEnd("Panic")
            ELSE IF ~(a.token_type = "Reference" /\ b.token_type = "Reference")
            THEN StepEnd("Err")
            ELSE LET r == apply_reference_operator(a.reference_set[1],
                                                   b.reference_set[1], operator)
                 IN  IF r.st # "Ok" THEN StepEnd(r.st)
                     ELSE StepOk(Append(Pop(rest), TokenReference(r.set)))
      [] operator = <<"-", "1">> ->
            IF fa.st # "Ok" THEN StepEnd("Panic")
            ELSE StepOk(Append(rest, Token("Number", F32ToString(F32Neg(fa.v)))))
      [] operator = <<"%">> ->
            IF fa.st # "Ok" THEN StepEnd("Panic")
            ELSE StepOk(Append(rest, Token("Number",
                            F32ToString(F32Div(fa.v, Fin(100 * Scale))))))
      [] operator \in {<<"+">>, <<"-">>, <<"*">>, <<"/">>, <<"^">>} ->
            IF rest = <<>> \/ fb.st # "Ok" \/ fa.st # "Ok" THEN StepEnd("Panic")
            ELSE StepOk(Append(Pop(rest), Token("Number",
                            F32ToString(apply_arithmetic_operator(fb.v, fa.v, operator)))))
      [] operator = <<"&">> ->
            IF rest = <<>> THEN StepEnd("Panic")
            ELSE StepOk(Append(Pop(rest), Concatenated(b.content \o a.content)))
      [] operator \in {<<"=">>, <<"<">>, <<">">>, <<"<", "=">>, <<">", "=">>, <<"<", ">">>} ->
            IF rest = <<>> \/ fb.st # "Ok" \/ fa.st # "Ok" THEN StepEnd("Panic")
            ELSE StepOk(Append(Pop(rest), Token("Boolean",
                            IF apply_comparison_operator(fb.v, fa.v, operator)
                            THEN S_TRUE ELSE S_FALSE)))
      [] OTHER -> StepOk(rest)

\* the Operator arm of the evaluation loop, on the operand stack
EvalOperator(operator, stack) ==
    IF stack = <<>> THEN StepEnd("Panic")
    ELSE OperatorArm(operator, Top(stack), Pop(stack), Top(Pop(stack)),
                     as_f32(Top(stack)), as_f32(Top(Pop(stack))))

\* the tokens of a call that returned r go onto the stack below its arguments
PushCall(below, r) ==
    CASE r.st = "Ok" -> StepOk(below \o r.toks)
      [] r.st = "Err" -> StepOk(below)
      [] OTHER -> StepEnd(r.st)

\* the Function arm: the arguments are popped, the function called, and its
\* tokens pushed when the call returns Ok
EvalFunction(token, stack, s, depth) ==
    IF token.content \notin FuncNames THEN StepEnd("Err")
    ELSE IF token.function_n_args[1] > Len(stack) THEN StepEnd("Panic")
    ELSE PushCall(SubSeq(stack, 1, Len(stack) - token.function_n_args[1]),
                  FuncCall(token.content,
                           SubSeq(stack, Len(stack) - token.function_n_args[1] + 1, Len(stack)),
                           s, depth))

\* one iteration of the second loop of eval_formula
EvalStep(token, stack, s, depth) ==
    CASE token.token_type = "Operator" -> EvalOperator(token.content, stack)
      [] token.token_type = "Function" -> EvalFunction(token, stack, s, depth)
      [] token.token_type \in OperandTypes -> StepOk(Append(stack, token))
      [] OTHER -> StepOk(stack)

\* after the i-th iteration ended as step: the loop stops on a failure
EvalAfter(out, i, step, s, depth) ==
    IF step.st # "Ok" THEN EvalEnd(step.st)
    ELSE EvalLoop(out, i + 1, step.stack, s, depth)

\* the second loop of eval_formula, from the i-th token of the postfix program on,
\* and the final eval_stack.first().unwrap()
EvalLoop(out, i, stack, s, depth) ==
    IF i > Len(out)
    THEN IF stack = <<>> THEN EvalEnd("Panic") ELSE EvalOk(stack[1])
    ELSE EvalAfter(out, i, EvalStep(out[i], stack, s, depth), s, depth)

\* the evaluation of a postfix program
EvalPostfix(out, s, depth) == EvalLoop(out, 1, <<>>, s, depth)

\* eval_formula on the outcome of the lexer: a lexing error leaves no token
EvalParsed(lexed, s, depth) ==
    IF lexed.st = "Panic" THEN EvalEnd("Panic")
    ELSE LET r == Reorder(lexed.toks)
         IN  IF r.st # "Ok" THEN EvalEnd(r.st) ELSE EvalPostfix(r.out, s, depth)

EvalFormulaD(f, s, depth) == EvalParsed(ParseFormula(f), s, depth)

\* the formula cells of a grid: no chain of distinct formula cells is longer
CellCount(s) ==
    Cardinality({c \in (0..Len(s.data)) \X (0..SPREADSHEET_MAX_COLS) :
                    c[1] < Len(s.data) /\ c[2] < Len(s.data[c[1] + 1])})

\* eval_formula
eval_formula(f, s) == EvalFormulaD(f, s, CellCount(s) + 1)

\* the spreadsheet the evaluator reads
Sheet == [data |-> data, col_widths |-> col_widths]

(***************************************************************************)
(* The state after construction: Spreadsheet::new / Spreadsheet::from_csv  *)
(* and App::new.  The formula cache is a set of [cell, tok] entries.       *)
(***************************************************************************)
NewColWidths == [i \in 1..SPREADSHEET_MAX_COLS |-> DEFAULT_COL_WIDTH]

AppNew ==
    /\ focused_area = "Data"
    /\ editor_value = <<>>
    /\ active_cell = SpreadsheetCell(0, 0)
    /\ selection_end = SpreadsheetCell(0, 0)
    /\ formula_cache = {}
    /\ phase = "render"
    /\ last_event = "none"
    /\ n_events = 0

\* no evaluation of a cell text is under way
EvalIdle ==
    /\ cell_text = <<>>
    /\ pc = "idle"
    /\ parsed = LexOk(<<>>)
    /\ output_queue = ReorderRes("Ok", <<>>)
    /\ result = EvalEnd("None")

\* no function of the reference type is being exercised
RefIdle ==
    /\ ref_call = "none"
    /\ ref_input = <<>>
    /\ ref_output = <<>>

(***************************************************************************)
(* The evaluation of one cell text against a loaded grid, step by step:    *)
(* cell_to_token either classifies the raw text or enters eval_formula,    *)
(* whose lexer, reorderer and evaluator run one after the other.           *)
(***************************************************************************)
MaxDigit == 3
MaxLen == 3
MaxArgs == 3

Lits == {<<DigitSeq[d + 1]>> : d \in 1..MaxDigit}
BinOps == {"+", "-", "*", "/", "^", "&", "<"}

Infix3(a, o1, b, o2, c) == <<"=">> \o a \o <<o1>> \o b \o <<o2>> \o c
PrecedenceTexts == {Infix3(a, o1, b, o2, c) : a \in Lits, b \in Lits, c \in Lits,
                                              o1 \in BinOps, o2 \in BinOps}

ParenRight(a, b, c, d) == <<"=">> \o a \o <<"+", "(">> \o b \o <<"+">> \o c \o <<")", "*">> \o d
ParenLeft(a, b, c) == <<"=", "(">> \o a \o <<"+">> \o b \o <<")", "*">> \o c
S3Text == <<"=", "-", "3", "+", "-", "4", "*", "(", "2", "+", "(", "-", "2", "+", "3", ")", "*", "4", ")", "/", "5">>
ParenTexts == {ParenRight(a, b, c, d) : a \in Lits, b \in Lits, c \in Lits, d \in Lits}
              \cup {ParenLeft(a, b, c) : a \in Lits, b \in Lits, c \in Lits}
              \cup {S3Text}

Call1(f, x) == f \o <<"(">> \o x \o <<")">>
CallOpCall(f, x, op, g, y) == <<"=">> \o Call1(f, x) \o <<op>> \o Call1(g, y)
CallTexts == {CallOpCall(f, x, op, g, y) : f \in {S_SQRT, S_SUM}, g \in {S_SQRT, S_SUM},
                                           x \in Lits, y \in Lits, op \in {"+", "*"}}

FailTexts == {<<"=", "S", "Q", "R", "T", "(", "\"", "a", "\"", ")">>, <<"=", "I", "F", "(", "5", ",", "1", ",", "2", ")">>, <<"=", "S", "Q", "R", "T", "(", "\"", "a", "\"", ")", "+", "1">>, <<"=", "1", " ", "S", "Q", "R", "T", "(", "\"", "a", "\"", ")">>,
              <<"=", "S", "Q", "R", "T", "(", "1", ",", "2", ")">>, <<"=", "(", "1", ")", "I", "F", "(", "5", ",", "1", ",", "2", ")">>, <<"=", "I", "F", "(", "T", "R", "U", "E", ")">>}

IfConds == {<<"T", "R", "U", "E">>, <<"F", "A", "L", "S", "E">>, <<"1", "=", "1">>, <<"1", "=", "2">>}
IfArgs == {<<"1">>, <<"\"", "y", "e", "s", "\"">>, <<"\"", "n", "o", "\"">>, <<"A", "1">>, <<"B", "1">>}
If3(c, x, y) == <<"=", "I", "F", "(">> \o c \o <<",">> \o x \o <<",">> \o y \o <<")">>
If2(c, x) == <<"=", "I", "F", "(">> \o c \o <<",">> \o x \o <<")">>
IfTexts == {If3(c, x, y) : c \in IfConds, x \in IfArgs, y \in IfArgs}
           \cup {If2(c, x) : c \in IfConds, x \in IfArgs}

Aggregates == {S_SUM, S_AVERAGE, S_MEDIAN}
AggArgs == {<<"\"", "a", "\"">>, <<"\"", "a", "\"", ",", "1">>, <<"1", ",", "\"", "a", "\"">>, <<"1", ",", "2">>, <<"T", "R", "U", "E">>}
AggTexts == {<<"=">> \o Call1(f, x) : f \in Aggregates, x \in AggArgs}

ShortAlphabet == {"1", "+", "-", "(", ")", " "}
ShortTexts == UNION {{<<"=">> \o [i \in 1..n |-> t[i]] : t \in [1..n -> ShortAlphabet]}
                        : n \in 0..MaxLen}

RawTexts == Lits \cup {<<>>, <<"h", "i">>, <<"x", "1">>, <<"1", ".", "5">>, <<".">>, <<"1", ".", "2", ".", "3">>, <<"T", "R", "U", "E">>, <<"t", "r", "u", "e">>,
                       <<"T", "r", "u", "e">>, <<"F", "A", "L", "S", "E">>, <<"f", "a", "l", "s", "e">>, <<"F", "a", "l", "s", "e">>, <<"1", "e", "3">>, <<"-", "1">>}

RangeTexts == {<<"=", "S", "U", "M", "(", "A", "1", ":", "A", "3", ")">>, <<"=", "S", "U", "M", "(", "A", "1", ":", "A", "4", ")">>, <<"=", "S", "U", "M", "(", "A", "1", ")">>, <<"=", "S", "U", "M", "(", "A", "2", ",", "A", "3", ")">>,
               <<"=", "A", "V", "E", "R", "A", "G", "E", "(", "A", "1", ":", "A", "3", ")">>, <<"=", "M", "E", "D", "I", "A", "N", "(", "A", "1", ":", "A", "3", ")">>, <<"=", "A", "1", "+", "A", "2">>}

CellSamples == Lits \cup {<<>>, <<"h", "i">>, <<"F", "A", "L", "S", "E">>, <<"=", "1", "+", "2">>}
ColumnGrids == {<< <<a>>, <<b>>, <<c>> >> : a \in CellSamples, b \in CellSamples,
                                           c \in CellSamples}

\* arithmetic on the reference A1, over a grid whose only cell is A1
RefArithTexts == {<<"=", "A", "1", "+", "1">>, <<"=", "A", "1", "*", "2">>}
RefCellValues == Lits \cup {<<"5">>}

\* concatenations whose text is, or is not, a Boolean word
ConcatTexts == {<<"=", "\"", "a", "\"", "&", "T", "R", "U", "E">>,
                <<"=", "\"", "T", "R", "\"", "&", "\"", "U", "E", "\"">>,
                <<"=", "\"", "a", "\"", "&", "\"", "b", "\"">>}

\* MEDIAN called on 0..MaxArgs numeric literals
ArgLists == UNION {[1..n -> Lits] : n \in 0..MaxArgs}
RECURSIVE JoinArgs(_)
JoinArgs(args) ==
    CASE Len(args) = 0 -> <<>>
      [] Len(args) = 1 -> args[1]
      [] OTHER -> args[1] \o <<",">> \o JoinArgs(Tail(args))
MedianText(args) == <<"=">> \o Call1(S_MEDIAN, JoinArgs(args))
MedianTexts == {MedianText(args) : args \in ArgLists}

\* a set operator between two operands, and the range of an empty intersection
SetOps == {":", ",", " "}
SetOperands == {<<"A", "1">>, <<"B", "2">>, <<"A", "2">>, <<"1">>, <<"\"", "a", "\"">>,
                <<"T", "R", "U", "E">>}
SetOpTexts == {<<"=">> \o x \o <<op>> \o y : x \in SetOperands, y \in SetOperands,
                                               op \in SetOps}
EmptyRangeText == <<"=", "(", "A", "1", " ", "B", "1", ")", ":", "C", "1">>

\* a function name that no ( follows, inside a formula or at its end, and
\* formulas whose first token is a comma
UnopenedCalls == UNION {{w, <<"1", "+">> \o w, w \o <<"+", "1">>, w \o <<" ", "1">>,
                         <<"1", "+">> \o w \o <<")">>} : w \in {S_PI, S_SUM}}
CommaFirst == {<<",">>, <<",", "1">>, <<",", "A", "1">>}
LexErrTexts == {<<"=">> \o t : t \in UnopenedCalls \cup CommaFirst}

\* operands of two kinds around parentheses
OperandTexts == {<<"=", "\"", "a", "\"", "&", "(", "1", "+", "2", ")", "*", "3">>,
                 <<"=", "(", "\"", "a", "\"", "&", "\"", "b", "\"", ")", "&", "1">>}

\* the operators of precedence 0
ZeroPrecedenceTexts == {<<"=", "@">>, <<"=", "#">>, <<"=", "1", "@", "2">>,
                        <<"=", "1", "+", "2", "#", "3">>, <<"=", "(", "1", "@", "2", ")">>}

\* a minus sign after a space, and in the last position
MinusTexts == {<<"=", "1", " ", "-", "2">>, <<"=", "2", "*", "-">>,
               <<"=", "1", " ", "-", " ", "2">>}

\* calls, with the number of argument expressions written at the top level
\* of each call, in the order of the function names
ArityCases ==
    {[text |-> <<"=", "P", "I", "(", ")">>,
      arities |-> <<0>>],
     [text |-> <<"=", "S", "U", "M", "(", "1", ")">>,
      arities |-> <<1>>],
     [text |-> <<"=", "S", "U", "M", "(", "1", ",", "2", ")">>,
      arities |-> <<2>>],
     [text |-> <<"=", "S", "U", "M", "(", "1", ",", "2", ",", "3", ")">>,
      arities |-> <<3>>],
     [text |-> <<"=", "S", "U", "M", "(", "\"", "a", "\"", ",", "1", ")">>,
      arities |-> <<2>>],
     [text |-> <<"=", "S", "U", "M", "(", "S", "U", "M", "(", "1", ",", "2", ")", ",", "3", ")">>,
      arities |-> <<2, 2>>],
     [text |-> <<"=", "S", "U", "M", "(", "1", ",", "P", "I", "(", ")", ")">>,
      arities |-> <<2, 0>>],
     [text |-> <<"=", "S", "U", "M", "(", "(", "1", ")", ",", "2", ")">>,
      arities |-> <<2>>],
     [text |-> <<"=", "S", "U", "M", "(", "A", "1", ",", "1", ")">>,
      arities |-> <<2>>],
     [text |-> <<"=", "S", "U", "M", "(", "1", ",", "A", "1", ")">>,
      arities |-> <<2>>],
     [text |-> <<"=", "S", "U", "M", "(", "A", "1", ",", "B", "1", ")">>,
      arities |-> <<2>>],
     [text |-> <<"=", "I", "F", "(", "1", ",", "A", "1", ",", "B", "1", ")">>,
      arities |-> <<3>>]}
ArityTexts == {c.text : c \in ArityCases}

\* concatenations, with the type and the content of their value; the content
\* of a Reference token is the empty text
ConcatCases ==
    {[text |-> <<"=", "\"", "a", "\"", "&", "\"", "b", "\"">>,
      type |-> "String", content |-> <<"a", "b">>],
     [text |-> <<"=", "\"", "a", "\"", "&", "T", "R", "U", "E">>,
      type |-> "String", content |-> <<"a", "T", "R", "U", "E">>],
     [text |-> <<"=", "\"", "T", "R", "\"", "&", "\"", "U", "E", "\"">>,
      type |-> "Boolean", content |-> <<"T", "R", "U", "E">>],
     [text |-> <<"=", "\"", "t", "r", "\"", "&", "\"", "u", "e", "\"">>,
      type |-> "Boolean", content |-> <<"T", "R", "U", "E">>],
     [text |-> <<"=", "\"", "f", "a", "\"", "&", "\"", "l", "s", "e", "\"">>,
      type |-> "Boolean", content |-> <<"F", "A", "L", "S", "E">>],
     [text |-> <<"=", "T", "R", "U", "E", "&", "F", "A", "L", "S", "E">>,
      type |-> "String", content |-> <<"T", "R", "U", "E", "F", "A", "L", "S", "E">>],
     [text |-> <<"=", "1", "&", "2">>,
      type |-> "Number", content |-> <<"1", "2">>],
     [text |-> <<"=", "\"", "1", "\"", "&", "\"", ".", "5", "\"">>,
      type |-> "Number", content |-> <<"1", ".", "5">>],
     [text |-> <<"=", "\"", "-", "\"", "&", "1">>,
      type |-> "Number", content |-> <<"-", "1">>],
     [text |-> <<"=", "\"", "1", "\"", "&", "\"", "e", "\"">>,
      type |-> "String", content |-> <<"1", "e">>],
     [text |-> <<"=", "1", "&", "\"", "a", "\"">>,
      type |-> "String", content |-> <<"1", "a">>],
     [text |-> <<"=", "\"", "b", "\"", "&", "\"", "a", "\"">>,
      type |-> "String", content |-> <<"b", "a">>],
     [text |-> <<"=", "1", "&", "2", "&", "3">>,
      type |-> "Number", content |-> <<"1", "2", "3">>],
     [text |-> <<"=", "A", "1", "&", "\"", "b", "\"">>,
      type |-> "String", content |-> <<"b">>]}
ConcatCaseTexts == {c.text : c \in ConcatCases}

\* grids whose first cell holds a formula that refers to that cell, as the
\* operand of an operator, as the argument of a function, and through B1
SelfOperand == <<"=", "A", "1", "+", "1">>
SelfArgument == <<"=", "S", "U", "M", "(", "A", "1", ")">>
ThroughB1 == <<"=", "S", "U", "M", "(", "B", "1", ")">>
SelfRefGrids == {<< <<SelfOperand>> >>, << <<SelfArgument>> >>,
                 << <<ThroughB1, SelfArgument>> >>,
                 << <<ThroughB1, SelfOperand>> >>}

\* numeric literals, binary arithmetic operators and balanced parentheses
InfixTexts == {<<"=", "(", "1", ")", "-", "2">>,
               <<"=", "(", "1", "+", "2", ")", "-", "3">>,
               <<"=", "1", "-", "(", "2", "-", "3", ")">>,
               <<"=", "(", "3", "-", "1", ")", "*", "(", "2", "+", "1", ")">>,
               <<"=", "2", "^", "(", "1", "+", "1", ")">>,
               <<"=", "(", "(", "1", "+", "2", ")", ")", "/", "3">>,
               <<"=", "(", "1", "+", "2", ")", "-", "(", "3", "-", "1", ")">>}
ArithOps == {"+", "-", "*", "/", "^"}

EvalInputs ==
    {[text |-> t, data |-> <<>>] :
        t \in PrecedenceTexts \cup ParenTexts \cup CallTexts \cup FailTexts \cup IfTexts
              \cup AggTexts \cup ShortTexts \cup RawTexts \cup ConcatTexts
              \cup MedianTexts \cup SetOpTexts \cup {EmptyRangeText}
              \cup LexErrTexts \cup OperandTexts
              \cup ZeroPrecedenceTexts \cup MinusTexts
              \cup ArityTexts \cup InfixTexts}
    \cup {[text |-> t, data |-> << <<<<"1">>>> >>] : t \in ConcatCaseTexts}
    \cup {[text |-> d[1][1], data |-> d] : d \in SelfRefGrids}
    \cup {[text |-> t, data |-> d] : t \in RangeTexts, d \in ColumnGrids}
    \cup {[text |-> t, data |-> << <<a>> >>] : t \in RefArithTexts, a \in RefCellValues}

EvalInit ==
    /\ build \in {"debug", "release"}
    /\ \E input \in EvalInputs : cell_text = input.text /\ data = input.data
    /\ undo = <<>> /\ redo = <<>> /\ col_widths = NewColWidths
    /\ AppNew
    /\ RefIdle
    /\ pc = "cell"
    /\ parsed = LexOk(<<>>)
    /\ output_queue = ReorderRes("Ok", <<>>)
    /\ result = EvalEnd("None")
    /\ original = data

\* the recursion budget of a top-level evaluation
TopDepth == CellCount(Sheet) + 1

\* cell_to_token on raw text that is no formula
Coerce ==
    /\ pc = "cell" /\ ~StartsWith(cell_text, "=")
    /\ result' = cell_to_token(cell_text, Sheet, TopDepth)
    /\ pc' = "done"
    /\ UNCHANGED <<build, original, gridVars, appVars, refVars, cell_text, parsed, output_queue>>

\* cell_to_token on a formula enters eval_formula, which lexes first
Lex ==
    /\ pc = "cell" /\ StartsWith(cell_text, "=")
    /\ parsed' = ParseFormula(Tail(cell_text))
    /\ IF parsed'.st = "Panic"
       THEN pc' = "done" /\ result' = EvalEnd("Panic")
       ELSE pc' = "reorder" /\ UNCHANGED result
    /\ UNCHANGED <<build, original, gridVars, appVars, refVars, cell_text, output_queue>>

\* the first loop of eval_formula
ReorderStep ==
    /\ pc = "reorder"
    /\ output_queue' = Reorder(parsed.toks)
    /\ IF output_queue'.st # "Ok"
       THEN pc' = "done" /\ result' = EvalEnd(output_queue'.st)
       ELSE pc' = "eval" /\ UNCHANGED result
    /\ UNCHANGED <<build, original, gridVars, appVars, refVars, cell_text, parsed>>

\* the second loop of eval_formula and its return
Evaluate ==
    /\ pc = "eval"
    /\ result' = EvalPostfix(output_queue.out, Sheet, TopDepth)
    /\ pc' = "done"
    /\ UNCHANGED <<build, original, gridVars, appVars, refVars, cell_text, parsed, output_queue>>

EvalNext == Coerce \/ Lex \/ ReorderStep \/ Evaluate

EvalSpec == EvalInit /\ [][EvalNext]_vars

(***************************************************************************)
(* Properties of the engine, stated on the evaluation of one cell text.    *)
(***************************************************************************)
IsFormula == StartsWith(cell_text, "=")
NumberToken(text) == Token("Number", text)

\* x op y for two operand tokens: one application of a binary operator
ApplyBinary(op, x, y) == EvalOperator(<<op>>, <<x, y>>).stack[1]

\* the precedence table of the binary operators (higher binds tighter)
TablePrecedence(op) ==
    CASE op = "^" -> 5
      [] op \in {"*", "/"} -> 4
      [] op \in {"+", "-"} -> 3
      [] op = "&" -> 2
      [] OTHER -> 1

\* C2: for every formula text (the empty text, a text that fails to lex and an
\* operator without operand included) eval_formula returns a Token or Err and
\* never aborts.
C2_NeverAborts == (pc = "done" /\ IsFormula) => result.st \in {"Ok", "Err"}

\* whether a registered function called from the i-th token of a postfix
\* program on returns its failure value
RECURSIVE CallFailsFrom(_, _, _, _, _)
CallFailsFrom(out, i, stack, s, depth) ==
    IF i > Len(out) THEN FALSE
    ELSE LET token == out[i]
             n == token.function_n_args[1]
             failed == /\ token.token_type = "Function"
                       /\ token.content \in FuncNames
                       /\ n <= Len(stack)
                       /\ FuncCall(token.content,
                                   SubSeq(stack, Len(stack) - n + 1, Len(stack)),
                                   s, depth).st = "Err"
             step == EvalStep(token, stack, s, depth)
         IN  failed \/ (step.st = "Ok" /\ CallFailsFrom(out, i + 1, step.stack, s, depth))

\* C3: when a registered function invoked during the evaluation fails, the
\* evaluation of the whole formula fails: eval_formula returns Err.
C3_CallFailureFailsFormula ==
    (pc = "done" /\ IsFormula /\ output_queue.st = "Ok" /\ parsed.st # "Panic"
        /\ CallFailsFrom(output_queue.out, 1, <<>>, Sheet, TopDepth))
    => result.st = "Err"

\* C4: in a parenthesis-free formula a o1 b o2 c over numeric literals the
\* operator of higher precedence is applied first: the value is a o1 (b o2 c)
\* when o2 binds tighter than o1 and (a o1 b) o2 c when o1 binds tighter.
C4_PrecedenceGrouping ==
    (pc = "done" /\ cell_text \in PrecedenceTexts) =>
        \A a \in Lits, b \in Lits, c \in Lits, o1 \in BinOps, o2 \in BinOps :
            cell_text = Infix3(a, o1, b, o2, c) =>
                /\ TablePrecedence(o1) < TablePrecedence(o2) =>
                        result = EvalOk(ApplyBinary(o1, NumberToken(a),
                                    ApplyBinary(o2, NumberToken(b), NumberToken(c))))
                /\ TablePrecedence(o1) > TablePrecedence(o2) =>
                        result = EvalOk(ApplyBinary(o2,
                                    ApplyBinary(o1, NumberToken(a), NumberToken(b)),
                                    NumberToken(c)))

\* 1+2*3 has been evaluated, to 7
C4_Witness ==
    /\ pc = "done"
    /\ cell_text = <<"=", "1", "+", "2", "*", "3">>
    /\ result = EvalOk(NumberToken(<<"7">>))

\* C5: a parenthesised sub-expression is evaluated as one unit: a+(b+c)*d is
\* a+((b+c)*d), (a+b)*c is the sum times c, and -3+-4*(2+(-2+3)*4)/5 is -7.8.
C5_ParenthesesGroup ==
    /\ \A a \in Lits, b \in Lits, c \in Lits, d \in Lits :
        (pc = "done" /\ cell_text = ParenRight(a, b, c, d)) =>
            result = EvalOk(ApplyBinary("+", NumberToken(a),
                        ApplyBinary("*", ApplyBinary("+", NumberToken(b), NumberToken(c)),
                                    NumberToken(d))))
    /\ \A a \in Lits, b \in Lits, c \in Lits :
        (pc = "done" /\ cell_text = ParenLeft(a, b, c)) =>
            result = EvalOk(ApplyBinary("*", ApplyBinary("+", NumberToken(a), NumberToken(b)),
                                        NumberToken(c)))
    /\ (pc = "done" /\ cell_text = S3Text) => result = EvalOk(NumberToken(<<"-", "7", ".", "8">>))

\* the token a call of f on the single literal x returns
CallValue(f, x) == FuncCall(f, <<NumberToken(x)>>, Sheet, TopDepth).toks[1]

\* C6: a function call used as an operand is evaluated before the operator is
\* applied: the postfix program of f(x) op g(y) is x f y g op and the result
\* is f(x) op g(y).
C6_CallsBeforeOperator ==
    \A f \in {S_SQRT, S_SUM}, g \in {S_SQRT, S_SUM}, x \in Lits, y \in Lits,
       op \in {"+", "*"} :
        (pc = "done" /\ cell_text = CallOpCall(f, x, op, g, y)) =>
            /\ output_queue.out = <<NumberToken(x), TokenFunction(f, 1),
                                    NumberToken(y), TokenFunction(g, 1),
                                    Token("Operator", <<op>>)>>
            /\ result = EvalOk(ApplyBinary(op, CallValue(f, x), CallValue(g, y)))

\* the token an argument expression of IF stands for
ArgToken(x) ==
    CASE x = <<"1">> -> NumberToken(x)
      [] x = <<"\"", "y", "e", "s", "\"">> -> Token("String", <<"y", "e", "s">>)
      [] x = <<"\"", "n", "o", "\"">> -> Token("String", <<"n", "o">>)
      [] x = <<"A", "1">> -> TokenReference({Reference(Some(0), Some(0))})
      [] OTHER -> TokenReference({Reference(Some(0), Some(1))})

CondHolds(c) == c \in {<<"T", "R", "U", "E">>, <<"1", "=", "1">>}

\* C7: IF with a Boolean condition returns its second argument on TRUE and its
\* third argument, or Boolean FALSE when there are only two, on FALSE, for
\* number, string and reference arguments alike.
C7_IfSelects ==
    /\ \A c \in IfConds, x \in IfArgs, y \in IfArgs :
        (pc = "done" /\ cell_text = If3(c, x, y)) =>
            result = EvalOk(IF CondHolds(c) THEN ArgToken(x) ELSE ArgToken(y))
    /\ \A c \in IfConds, x \in IfArgs :
        (pc = "done" /\ cell_text = If2(c, x)) =>
            result = EvalOk(IF CondHolds(c) THEN ArgToken(x) ELSE Token("Boolean", S_FALSE))

\* the values of the cells of column A whose token is a number, top down
ColumnTokens == [i \in 1..Len(data) |-> get_cell_value(Sheet, SpreadsheetCell(i - 1, 0),
                                                        TopDepth)]
IsNumericToken(t) ==
    t.st = "Ok" /\ t.tok.token_type = "Number" /\ ParseF32(t.tok.content).ok
NumericTokens == SelectSeq(ColumnTokens, IsNumericToken)
ColumnNumbers == [i \in 1..Len(NumericTokens) |-> ParseF32(NumericTokens[i].tok.content).v]

\* C8: SUM over a reference set is the sum of the referenced cells whose token
\* is a number; cells with other text, empty cells and cells outside the grid
\* contribute nothing and make the call neither fail nor abort.
C8_SumSkipsNonNumbers ==
    (pc = "done" /\ cell_text \in {<<"=", "S", "U", "M", "(", "A", "1", ":", "A", "3", ")">>, <<"=", "S", "U", "M", "(", "A", "1", ":", "A", "4", ")">>}) =>
        result = EvalOk(NumberToken(F32ToString(F32Sum(ColumnNumbers))))

\* C9: SUM, AVERAGE and MEDIAN return the failure value when an argument is
\* neither numeric nor a Reference.
C9_NonNumericArgumentFails ==
    \A f \in Aggregates, x \in AggArgs :
        (pc = "eval" /\ cell_text = <<"=">> \o Call1(f, x)) =>
            LET out == output_queue.out
                args == SubSeq(out, 1, Len(out) - 1)
            IN  (\E i \in DOMAIN args :
                    ~is_number(args[i]) /\ args[i].token_type # "Reference")
                => FuncCall(f, args, Sheet, TopDepth).st = "Err"

\* the class the coercion table gives to raw text
TableClass(text) ==
    CASE \A i \in DOMAIN text : IsAsciiDigit(text[i]) \/ text[i] = "." -> "Number"
      [] ToUppercase(text) \in {S_TRUE, S_FALSE} -> "Boolean"
      [] OTHER -> "String"

\* C10: raw text that does not start with = becomes a Number when all its
\* characters are digits or dots, a Boolean when its uppercase is TRUE or
\* FALSE, and a String otherwise.
C10_CoercionClasses ==
    (pc = "done" /\ ~IsFormula) =>
        result.st = "Ok" /\ result.tok.token_type = TableClass(cell_text)

\* C11: a Reference token carrying exactly one cell is coerced to the numeric
\* value of that cell: with A1 holding a, A1+1 evaluates to a+1 and A1*2 to
\* a*2 (with A1 = 5: 6 and 10).
C11_ReferenceCoercion ==
    \A a \in RefCellValues :
        (pc = "done" /\ data = << <<a>> >>) =>
            /\ cell_text = <<"=", "A", "1", "+", "1">> =>
                    result = EvalOk(NumberToken(F32ToString(
                                F32Add(ParseF32(a).v, Fin(Scale)))))
            /\ cell_text = <<"=", "A", "1", "*", "2">> =>
                    result = EvalOk(NumberToken(F32ToString(
                                F32Mul(ParseF32(a).v, Fin(2 * Scale)))))

\* C12: concatenating the String "a" with the Boolean TRUE using & yields a
\* Boolean token with content TRUE.
C12_ConcatStringBoolean ==
    (pc = "done" /\ cell_text = <<"=", "\"", "a", "\"", "&", "T", "R", "U", "E">>) =>
        result = EvalOk(Token("Boolean", S_TRUE))

\* C12, amended: concatenating the String "a" with the Boolean TRUE using &
\* yields a String token with content aTRUE, the concatenated text being
\* neither a number nor a Boolean word.
C12_ConcatIsString ==
    (pc = "done" /\ cell_text = <<"=", "\"", "a", "\"", "&", "T", "R", "U", "E">>) =>
        result = EvalOk(Token("String", <<"a", "T", "R", "U", "E">>))

\* "a"&TRUE has been evaluated, from the postfix program "a" TRUE &
C12_Witness ==
    /\ pc = "done"
    /\ cell_text = <<"=", "\"", "a", "\"", "&", "T", "R", "U", "E">>
    /\ output_queue.out = <<Token("String", <<"a">>), Token("Boolean", S_TRUE),
                            Token("Operator", <<"&">>)>>
    /\ result.st = "Ok"

\* the k-th smallest of a non-empty sequence of finite numbers
Ranked(nums, k) ==
    CHOOSE v \in Range(nums) :
        /\ Cardinality({i \in DOMAIN nums : nums[i].m < v.m}) < k
        /\ Cardinality({i \in DOMAIN nums : nums[i].m <= v.m}) >= k

\* the median: the middle value, or the average of the two middle values
MedianOf(nums) ==
    IF Len(nums) % 2 = 1 THEN Ranked(nums, Len(nums) \div 2 + 1)
    ELSE F32Div(F32Add(Ranked(nums, Len(nums) \div 2),
                       Ranked(nums, Len(nums) \div 2 + 1)),
                Fin(2 * Scale))

\* C13: MEDIAN, for every argument list of length >= 0, returns one Number
\* equal to the median of the gathered values (the middle value for an odd
\* count, the average of the two middle values for an even count); when no
\* value is gathered it returns a value or the failure value and never aborts.
C13_MedianOfArguments ==
    (pc = "done" /\ cell_text \in MedianTexts) =>
        \A args \in ArgLists :
            cell_text = MedianText(args) =>
                IF args = <<>> THEN result.st \in {"Ok", "Err"}
                ELSE result = EvalOk(NumberToken(F32ToString(
                        MedianOf([i \in DOMAIN args |-> ParseF32(args[i]).v]))))

\* C13 on the argument lists that gather at least one value
C13_MedianOfValues ==
    (pc = "done" /\ cell_text \in MedianTexts) =>
        \A args \in ArgLists \ {<<>>} :
            cell_text = MedianText(args) =>
                result = EvalOk(NumberToken(F32ToString(
                        MedianOf([i \in DOMAIN args |-> ParseF32(args[i]).v]))))

\* the cells of the rectangle that bounds a set of cells
Rectangle(cells) ==
    LET rows == {r.row[1] : r \in cells}
        cols == {r.col[1] : r \in cells}
    IN  {Reference(Some(r), Some(c)) :
            r \in (CHOOSE x \in rows : \A y \in rows : x <= y)
                    ..(CHOOSE x \in rows : \A y \in rows : x >= y),
            c \in (CHOOSE x \in cols : \A y \in cols : x <= y)
                    ..(CHOOSE x \in cols : \A y \in cols : x >= y)}

\* the set a set operator stands for, on a left and a right operand set
SetOf(op, left, right) ==
    CASE op = <<":">> -> Rectangle(left \cup right)
      [] op = <<",">> -> left \cup right
      [] OTHER -> left \cap right

HasBothCoordinates(tok) ==
    \A r \in tok.reference_set[1] : r.row # None /\ r.col # None

\* C14: the set operators :, the comma and the space require both operands
\* to be Reference tokens: applied to two Reference operands they give a
\* Reference token carrying the range, the union and the intersection of the
\* operand sets, and applied to any other operand the evaluation returns the
\* failure value.
C14_SetOperators ==
    LET out == output_queue.out
    IN  /\ (/\ pc = "done" /\ output_queue.st = "Ok" /\ Len(out) = 3
             /\ out[3].token_type = "Operator" /\ out[3].content \in {<<":">>, <<",">>, <<" ">>}
             /\ out[1].token_type \in OperandTypes /\ out[2].token_type \in OperandTypes)
            => IF out[1].token_type = "Reference" /\ out[2].token_type = "Reference"
               THEN (HasBothCoordinates(out[1]) /\ HasBothCoordinates(out[2])) =>
                        result = EvalOk(TokenReference(
                            SetOf(out[3].content, out[1].reference_set[1],
                                  out[2].reference_set[1])))
               ELSE result.st = "Err"
        /\ (pc = "done" /\ cell_text = EmptyRangeText) =>
                result.st = "Ok" /\ result.tok.token_type = "Reference"

\* C14 on a single set operator between two operands
C14_OneSetOperator ==
    LET out == output_queue.out
    IN  (/\ pc = "done" /\ output_queue.st = "Ok" /\ Len(out) = 3
         /\ out[3].token_type = "Operator" /\ out[3].content \in {<<":">>, <<",">>, <<" ">>}
         /\ out[1].token_type \in OperandTypes /\ out[2].token_type \in OperandTypes)
        => IF out[1].token_type = "Reference" /\ out[2].token_type = "Reference"
           THEN (HasBothCoordinates(out[1]) /\ HasBothCoordinates(out[2])) =>
                    result = EvalOk(TokenReference(
                        SetOf(out[3].content, out[1].reference_set[1],
                              out[2].reference_set[1])))
           ELSE result.st = "Err"

\* C15: parse_formula returns Err, and no token stream, whenever a word that
\* names a registered function is not immediately followed by ( (another
\* character or the end of the input follows) and whenever a comma is the
\* first token.
C15_LexErrors ==
    (pc # "cell" /\ cell_text \in LexErrTexts) => parsed.st = "Err"

(***************************************************************************)
(* The functions of the reference type, each called on an input drawn from *)
(* a bounded set: the column index goes to letters and back, a text is     *)
(* parsed and the reference printed, and a range is spanned both ways.     *)
(* ref_call names the call that is due, ref_input holds the input and      *)
(* ref_output what the calls have returned so far.                         *)
(***************************************************************************)
MaxIndex == 60
MaxLetters == 2
MaxCoord == 2

RefLetters == {"A", "B", "Z", "a", "b"}
RefCols == UNION {[1..n -> RefLetters] : n \in 1..MaxLetters}
RefRows == {<<"1">>, <<"2">>, <<"3">>, <<"1", "0">>}
\* letters followed by digits, the row at least 1
ValidRefTexts == {c \o r : c \in RefCols, r \in RefRows}
OtherRefTexts == {<<>>, <<"A">>, <<"a", "b">>, <<"1">>, <<"0">>, <<"A", "0">>, <<"b", "0">>,
                  <<"A", "0", "0">>, <<"1", "A">>, <<"A", "1", "B">>, <<"A", "-", "1">>,
                  <<"X", "F", "D", "1", "0", "4", "8", "5", "7", "6">>,
                  <<"A", "1", "0", "4", "8", "5", "7", "7">>, <<"X", "F", "E", "1">>}

\* the limits of spreadsheet.rs at their full size: 2^20 rows and 2^14 columns
MAX_ROWS == 1048576
MAX_COLS == 16384

Coords == {None} \cup {Some(i) : i \in 0..MaxCoord}
RefPool == {Reference(r, c) : r \in Coords, c \in Coords}

RefInputs ==
    {[kind |-> "index", index |-> n] : n \in 1..MaxIndex}
    \cup {[kind |-> "text", text |-> t] : t \in ValidRefTexts \cup OtherRefTexts}
    \cup {[kind |-> "pair", self |-> a, other |-> b] : a \in RefPool, b \in RefPool}
    \cup {[kind |-> "order", self |-> a, other |-> b] : a \in RefPool, b \in RefPool}

RefInit ==
    /\ build \in {"debug", "release"}
    /\ data = <<>> /\ undo = <<>> /\ redo = <<>> /\ col_widths = NewColWidths
    /\ AppNew
    /\ EvalIdle
    /\ ref_input \in RefInputs
    /\ ref_call = CASE ref_input.kind = "index" -> "index_to_alpha"
                    [] ref_input.kind = "text" -> "parse_reference"
                    [] ref_input.kind = "order" -> "cmp"
                    [] OTHER -> "range"
    /\ ref_output = <<>>
    /\ original = data

\* Reference::index_to_alpha on a column index
IndexToAlphaCall ==
    /\ ref_call = "index_to_alpha"
    /\ ref_output' = [alpha |-> index_to_alpha(ref_input.index)]
    /\ ref_call' = "alpha_to_index"
    /\ UNCHANGED <<build, original, gridVars, appVars, evalVars, ref_input>>

\* Reference::alpha_to_index on the letters index_to_alpha returned
AlphaToIndexCall ==
    /\ ref_call = "alpha_to_index"
    /\ ref_output' = [alpha |-> ref_output.alpha,
                      index |-> alpha_to_index(ref_output.alpha[1])]
    /\ ref_call' = "done"
    /\ UNCHANGED <<build, original, gridVars, appVars, evalVars, ref_input>>

\* the text and its uppercase have been parsed, as r and u
ParsedBoth(r, u) ==
    /\ ref_output' = [parsed |-> r, upper |-> u]
    /\ ref_call' = IF r.st = "Some" THEN "to_string" ELSE "done"

\* parse_reference on a text, and on its uppercase
ParseReferenceCall ==
    /\ ref_call = "parse_reference"
    /\ ParsedBoth(ParseReference(ref_input.text), ParseReference(ToUppercase(ref_input.text)))
    /\ UNCHANGED <<build, original, gridVars, appVars, evalVars, ref_input>>

\* Reference::to_string on the reference parse_reference returned
ToStringCall ==
    /\ ref_call = "to_string"
    /\ ref_output' = [parsed |-> ref_output.parsed, upper |-> ref_output.upper,
                      string |-> RefToString(ref_output.parsed.ref)]
    /\ ref_call' = "done"
    /\ UNCHANGED <<build, original, gridVars, appVars, evalVars, ref_input>>

\* Reference::range on two references, in both orders
RangeCall ==
    /\ ref_call = "range"
    /\ ref_output' = [forth |-> RefRange(ref_input.self, ref_input.other),
                      back |-> RefRange(ref_input.other, ref_input.self)]
    /\ ref_call' = "done"
    /\ UNCHANGED <<build, original, gridVars, appVars, evalVars, ref_input>>

\* Ord::cmp on two references, and the iteration of the BTreeSet holding them
CmpCall ==
    /\ ref_call = "cmp"
    /\ ref_output' = [less |-> RefLess(ref_input.self, ref_input.other),
                      greater |-> RefLess(ref_input.other, ref_input.self),
                      iter |-> RefIter({ref_input.self, ref_input.other})]
    /\ ref_call' = "done"
    /\ UNCHANGED <<build, original, gridVars, appVars, evalVars, ref_input>>

RefNext ==
    \/ IndexToAlphaCall \/ AlphaToIndexCall
    \/ ParseReferenceCall \/ ToStringCall
    \/ RangeCall
    \/ CmpCall

RefSpec == RefInit /\ [][RefNext]_vars

\* the calls on an input of one kind have returned
Returned(kind) == ref_call = "done" /\ ref_input.kind = kind

\* C16: for every column index n from 1 on, index_to_alpha(n) is a text of
\* letters A-Z and alpha_to_index gives n back (bijective base 26: 1 = A,
\* 26 = Z, 27 = AA).
C16_AlphaIndexRoundTrip ==
    Returned("index") =>
        /\ ref_output.alpha # None
        /\ \A i \in DOMAIN ref_output.alpha[1] : ref_output.alpha[1][i] \in Range(UpperSeq)
        /\ ref_output.index = Some(ref_input.index)
        /\ (ref_input.index = 1) => ref_output.alpha = Some(<<"A">>)
        /\ (ref_input.index = 26) => ref_output.alpha = Some(<<"Z">>)
        /\ (ref_input.index = 27) => ref_output.alpha = Some(<<"A", "A">>)

\* C17: for every valid reference text t (letters followed by digits, in
\* any letter case) parse_reference succeeds, t and its uppercase parse to
\* the same Reference, and the Reference converted back to text is the
\* uppercase of t.
C17_ParseCanonical ==
    (Returned("text") /\ ref_input.text \in ValidRefTexts) =>
        /\ ref_output.parsed.st = "Some"
        /\ ref_output.parsed = ref_output.upper
        /\ ref_output.string = [st |-> "Ok", text |-> ToUppercase(ref_input.text)]

\* a reference with both coordinates: a single cell
IsSingleCell(r) == r.row # None /\ r.col # None

\* the cells of a sequence are in row-major order, none twice
RowMajor(cells) ==
    \A i \in DOMAIN cells, j \in DOMAIN cells :
        i < j => \/ cells[i].row[1] < cells[j].row[1]
                 \/ cells[i].row[1] = cells[j].row[1] /\ cells[i].col[1] < cells[j].col[1]

\* C18: for two single-cell References a and b, range(a, b) is exactly the
\* set of the cells (r, c) with min(row) <= r <= max(row) and
\* min(col) <= c <= max(col), enumerated row-major without duplicates, and
\* range(a, b) and range(b, a) are equal as sets.
C18_RangeRectangle ==
    (Returned("pair") /\ IsSingleCell(ref_input.self) /\ IsSingleCell(ref_input.other)) =>
        /\ ref_output.forth.st = "Ok"
        /\ Range(ref_output.forth.cells) = Rectangle({ref_input.self, ref_input.other})
        /\ RowMajor(ref_output.forth.cells)
        /\ ref_output.back.st = "Ok"
        /\ Range(ref_output.back.cells) = Range(ref_output.forth.cells)

\* the range from B3 up to A1 has been spanned: six cells
C18_Witness ==
    /\ Returned("pair")
    /\ ref_input.self = Reference(Some(2), Some(1))
    /\ ref_input.other = Reference(Some(0), Some(0))
    /\ Len(ref_output.forth.cells) = 6
    /\ ref_output.forth.cells[2] = Reference(Some(0), Some(1))

\* the cells of the full columns, or of the full rows, between two coordinates
FullColumns(c1, c2) ==
    {Reference(Some(r), Some(c)) : r \in 0..(SPREADSHEET_MAX_ROWS - 1),
                                   c \in Min2(c1, c2)..Max2(c1, c2)}
FullRows(r1, r2) ==
    {Reference(Some(r), Some(c)) : r \in Min2(r1, r2)..Max2(r1, r2),
                                   c \in 0..(SPREADSHEET_MAX_COLS - 1)}

\* C19: when an endpoint of range(a, b) omits a coordinate, range does not
\* fail: it returns full columns for two column-only endpoints and full rows
\* for two row-only endpoints.
C19_PartialRange ==
    LET a == ref_input.self
        b == ref_input.other
    IN  (Returned("pair") /\ ~(IsSingleCell(a) /\ IsSingleCell(b))
            /\ Reference(None, None) \notin {a, b}) =>
            /\ ref_output.forth.st = "Ok"
            /\ (a.row = None /\ b.row = None) =>
                    Range(ref_output.forth.cells) = FullColumns(a.col[1], b.col[1])
            /\ (a.col = None /\ b.col = None) =>
                    Range(ref_output.forth.cells) = FullRows(a.row[1], b.row[1])

\* C20: every Reference parse_reference produces has at least one of row and
\* column present, a row index in [0, MAX_ROWS) and a column index in
\* [0, MAX_COLS); a text whose row is 0, or whose row or column exceeds the
\* maximum, yields no Reference outside these bounds.
C20_ReferenceBounds ==
    (Returned("text") /\ ref_output.parsed.st = "Some") =>
        LET r == ref_output.parsed.ref
        IN  /\ r.row # None \/ r.col # None
            /\ r.row # None => (0 <= r.row[1] /\ r.row[1] < MAX_ROWS)
            /\ r.col # None => (0 <= r.col[1] /\ r.col[1] < MAX_COLS)

\* C20, its first part: a parsed Reference has a row or a column
C20_RowOrColumn ==
    (Returned("text") /\ ref_output.parsed.st = "Some") =>
        (ref_output.parsed.ref.row # None \/ ref_output.parsed.ref.col # None)

\* the rank of an optional coordinate: None first, then the indices
OptRank(x) == IF x = None THEN 0 ELSE x[1] + 1

\* lexicographic comparison of two pairs of ranks
LexLess(a1, a2, b1, b2) == a1 < b1 \/ (a1 = b1 /\ a2 < b2)

\* the first reference precedes the second in the column-first order
ColFirst(a, b) == LexLess(OptRank(a.col), OptRank(a.row), OptRank(b.col), OptRank(b.row))

\* the first reference precedes the second in the row-first order
RowFirst(a, b) == LexLess(OptRank(a.row), OptRank(a.col), OptRank(b.row), OptRank(b.col))

\* the distinct references of a pair, the one that precedes the other first
Ordered(a, b, before) ==
    IF a = b THEN <<a>> ELSE IF before THEN <<a, b>> ELSE <<b, a>>

\* C21: the total order on Reference is lexicographic over (col, row), with
\* an absent coordinate before any present one: a Reference with a smaller
\* column precedes one with a larger column whatever the rows, and a
\* reference set iterates in that order.
C21_OrderColumnFirst ==
    Returned("order") =>
        /\ ref_output.less = ColFirst(ref_input.self, ref_input.other)
        /\ ref_output.greater = ColFirst(ref_input.other, ref_input.self)
        /\ ref_output.iter = Ordered(ref_input.self, ref_input.other,
                                     ColFirst(ref_input.self, ref_input.other))

\* C21, amended: the total order on Reference is lexicographic over
\* (row, col), with an absent coordinate before any present one: a Reference
\* with a smaller row precedes one with a larger row whatever the columns,
\* exactly one of two distinct References precedes the other, and a
\* reference set iterates in that order.
C21_OrderRowFirst ==
    Returned("order") =>
        /\ ref_output.less = RowFirst(ref_input.self, ref_input.other)
        /\ ref_output.greater = RowFirst(ref_input.other, ref_input.self)
        /\ (ref_input.self # ref_input.other) = (ref_output.less # ref_output.greater)
        /\ ref_output.iter = Ordered(ref_input.self, ref_input.other,
                                     RowFirst(ref_input.self, ref_input.other))

\* B1 and A2 have been compared: B1, of the smaller row, comes first
C21_Witness ==
    /\ Returned("order")
    /\ ref_input.self = Reference(Some(0), Some(1))
    /\ ref_input.other = Reference(Some(1), Some(0))
    /\ ref_output.less /\ ~ref_output.greater
    /\ ref_output.iter = <<ref_input.self, ref_input.other>>

\* a token the reorder pass sends straight to the output
IsOperand(t) == t.token_type \in {"Number", "String", "Boolean", "Reference"}

Operands(toks) == SelectSeq(toks, IsOperand)

\* C22: the reorder pass preserves the operands: the postfix output holds
\* exactly the Number, String, Boolean and Reference tokens of the token
\* stream, as many of them and in the same relative order.
C22_OperandsPreserved ==
    (pc = "eval") => Operands(output_queue.out) = Operands(parsed.toks)

\* ="a"&(1+2)*3 has been reordered: four operands of two kinds, the
\* operators moved behind them
C22_Witness ==
    /\ pc = "eval"
    /\ Len(Operands(parsed.toks)) = 4
    /\ parsed.toks[1].token_type = "String"
    /\ output_queue.out # parsed.toks
    /\ Operands(output_queue.out) = Operands(parsed.toks)
    /\ ~IsOperand(output_queue.out[Len(output_queue.out)])

\* the address lies in a populated row, within that row's cells
Populated(cell) == cell.row < Len(data) /\ cell.col < Len(data[cell.row + 1])

\* C23: reading a cell whose address lies outside the populated grid
\* returns the empty text, and neither fails nor changes the grid: the frame
\* drawn with the active cell outside the grid shows an empty editor and
\* leaves the grid as it is.
C23_ReadOutsideGrid ==
    [][(phase = "render" /\ focused_area = "Data" /\ ~Populated(active_cell))
        => (editor_value' = <<>> /\ UNCHANGED gridVars)]_vars

\* a frame has been drawn with the active cell beyond the rows of a grid
\* that holds text, and the editor is empty
C23_Witness ==
    /\ phase = "event" /\ focused_area = "Data"
    /\ last_event = "move"
    /\ data # <<>> /\ data[1] # <<>> /\ data[1][1] # <<>>
    /\ ~Populated(active_cell)
    /\ editor_value = <<>>

\* C26: the reorder pass terminates on every finite token stream, also when
\* an operator of precedence 0 (`@`, `#`) arrives while the operator stack
\* is empty or holds only entries of precedence 0.
C26_ReorderTerminates ==
    output_queue.st # "Hang"

\* C27: binary operators of equal precedence associate to the left: in a
\* parenthesis-free formula a o1 b o2 c over numeric literals with o1 and o2
\* of the same precedence the value is (a o1 b) o2 c; so a-b-c is (a-b)-c,
\* a/b/c is (a/b)/c and a^b^c is (a^b)^c.
C27_LeftAssociative ==
    (pc = "done" /\ cell_text \in PrecedenceTexts) =>
        \A a \in Lits, b \in Lits, c \in Lits, o1 \in BinOps, o2 \in BinOps :
            (cell_text = Infix3(a, o1, b, o2, c)
                /\ TablePrecedence(o1) = TablePrecedence(o2)) =>
                    result = EvalOk(ApplyBinary(o2,
                                ApplyBinary(o1, NumberToken(a), NumberToken(b)),
                                NumberToken(c)))

\* 3-2-1 has been evaluated, to 0
C27_Witness ==
    /\ pc = "done"
    /\ cell_text = <<"=", "3", "-", "2", "-", "1">>
    /\ result = EvalOk(NumberToken(<<"0">>))

\* the token is a minus sign, binary or rewritten to the unary marker
IsMinus(t) == t.token_type = "Operator" /\ t.content \in {<<"-">>, <<"-", "1">>}

\* the formula has been lexed into a token stream
Lexed == pc \in {"reorder", "eval", "done"} /\ IsFormula /\ parsed.st = "Ok"

\* C28: after lexing, every `-` that is first in the token stream or whose
\* preceding token is not a Number is the unary marker `-1`, and every `-`
\* whose preceding token is a Number is the binary operator `-`, at every
\* position of the stream.
C28_MinusDisambiguated ==
    (Lexed /\ cell_text \in ShortTexts \cup MinusTexts) =>
        \A i \in DOMAIN parsed.toks :
            IsMinus(parsed.toks[i]) =>
                (parsed.toks[i].content = <<"-", "1">>)
                    = (i = 1 \/ parsed.toks[i - 1].token_type # "Number")

NotSpace(c) == c # " "

\* the text without its spaces
Unspaced(text) == SelectSeq(text, NotSpace)

\* C29: a space whose neighbouring tokens are not both References is pure
\* filler: it is removed from the token stream wherever it occurs, the first
\* and the last position included, and has no other effect, so a formula
\* over numbers, operators and parentheses lexes to the same token stream
\* and evaluates to the same result as the formula without its spaces
\* (1 - 2 as 1-2).
C29_SpacesAreFiller ==
    (pc = "done" /\ cell_text \in ShortTexts \cup MinusTexts) =>
        /\ parsed = ParseFormula(Tail(Unspaced(cell_text)))
        /\ result = eval_formula(Tail(Unspaced(cell_text)), Sheet)

IsFunctionToken(t) == t.token_type = "Function"

\* the arities the lexer assigned, in the order of the Function tokens
AssignedArities(toks) ==
    LET fs == SelectSeq(toks, IsFunctionToken)
    IN  [i \in DOMAIN fs |-> fs[i].function_n_args]

\* C30: for every function call the arity assigned at lex time is the number
\* of argument expressions written at the top level of the call: 0 for an
\* immediately closed call, otherwise the number of commas at depth 1 of the
\* call plus one, the commas of nested calls not counted, whatever the kinds
\* of the arguments on either side of a comma.
C30_ArityCountsArguments ==
    (pc \in {"reorder", "eval", "done"} /\ cell_text \in ArityTexts) =>
        \A c \in ArityCases :
            cell_text = c.text =>
                /\ parsed.st = "Ok"
                /\ AssignedArities(parsed.toks) = [i \in DOMAIN c.arities |-> Some(c.arities[i])]

\* the arity is right whenever no comma stands between two references
C30_ArityWithoutReferencePairs ==
    (pc \in {"reorder", "eval", "done"} /\ cell_text \in ArityTexts) =>
        \A c \in ArityCases :
            (cell_text = c.text
                /\ \A i \in DOMAIN parsed.toks :
                       ~(parsed.toks[i].token_type = "Operator" /\ parsed.toks[i].content = <<",">>)) =>
                /\ parsed.st = "Ok"
                /\ AssignedArities(parsed.toks) = [i \in DOMAIN c.arities |-> Some(c.arities[i])]

\* C31: the & operator concatenates the content of its left operand followed
\* by that of its right operand and classifies the text: Number if it parses
\* as a number, otherwise Boolean with uppercase content if it equals TRUE or
\* FALSE whatever the case, otherwise String with the text unchanged.
C31_ConcatClassifies ==
    (pc = "done" /\ cell_text \in ConcatCaseTexts) =>
        \A c \in ConcatCases :
            cell_text = c.text => result = EvalOk(Token(c.type, c.content))

\* "tr"&"ue" has been evaluated, to the Boolean TRUE
C31_Witness ==
    /\ pc = "done"
    /\ cell_text = <<"=", "\"", "t", "r", "\"", "&", "\"", "u", "e", "\"">>
    /\ output_queue.out = <<Token("String", <<"t", "r">>), Token("String", <<"u", "e">>),
                            Token("Operator", <<"&">>)>>
    /\ result = EvalOk(Token("Boolean", S_TRUE))

\* the formula of A1 is evaluated on a grid in which it refers to A1
SelfReferring == data \in SelfRefGrids /\ cell_text = data[1][1]

\* C32: a formula that references its own cell, directly or through a chain
\* of formula cells, recurses without bound and its evaluation never
\* completes, whether the self-reference is the operand of an operator or
\* the argument of a function.
C32_SelfReferenceRecurses ==
    (pc = "done" /\ SelfReferring) => result.st = "Overflow"

\* a self-reference that is the argument of a function recurses without bound
C32_SelfArgumentRecurses ==
    (pc = "done" /\ SelfReferring /\ data[1][Len(data[1])] = SelfArgument)
        => result.st = "Overflow"

\* the operand stack at the end of the second loop of eval_formula, from the
\* i-th token of the postfix program on; empty when an iteration fails
RECURSIVE FinalStack(_, _, _)
FinalStack(out, i, stack) ==
    IF i > Len(out) THEN stack
    ELSE LET step == EvalStep(out[i], stack, Sheet, TopDepth)
         IN  IF step.st # "Ok" THEN <<>> ELSE FinalStack(out, i + 1, step.stack)

\* the formula is in ordinary infix form over numeric literals, the binary
\* operators + - * / ^ and balanced parentheses
IsInfixText ==
    \/ cell_text \in InfixTexts
    \/ cell_text \in ParenTexts \ {S3Text}
    \/ \E a \in Lits, b \in Lits, c \in Lits, o1 \in ArithOps, o2 \in ArithOps :
          cell_text = Infix3(a, o1, b, o2, c)

\* the evaluation returned the only token left on the operand stack
OneTokenLeft ==
    /\ result.st = "Ok"
    /\ FinalStack(output_queue.out, 1, <<>>) = <<result.tok>>

\* C33: for every formula built only from numeric literals, the binary
\* operators + - * / ^ and balanced parentheses in ordinary infix form the
\* evaluation ends with exactly one token on the operand stack, which is the
\* returned result: no operand is left over and no operator finds the stack
\* empty.
C33_OneTokenLeft ==
    (pc = "done" /\ IsInfixText) => OneTokenLeft

\* a binary minus follows a closing parenthesis in the text
MinusAfterParen ==
    \E i \in 1..(Len(cell_text) - 1) : cell_text[i] = ")" /\ cell_text[i + 1] = "-"

\* exactly one token is left whenever no minus follows a closing parenthesis
C33_OneTokenWithoutMinusAfterParen ==
    (pc = "done" /\ IsInfixText /\ ~MinusAfterParen) => OneTokenLeft

(***************************************************************************)
(* The grid mutators of Spreadsheet and its UndoStack.  A spreadsheet is   *)
(* [data, col_widths] as in Sheet; a stack is [undo, redo], two sequences  *)
(* of edit lists, the top last.                                            *)
(***************************************************************************)
Stack == [undo |-> undo, redo |-> redo]

\* Vec::resize: a sequence grown to n elements with a filler
ResizedTo(seq, n, filler) ==
    IF Len(seq) >= n THEN seq ELSE seq \o [i \in 1..(n - Len(seq)) |-> filler]

\* Spreadsheet::resize_to_cell
resize_to_cell(s, cell) ==
    LET rows == ResizedTo(s.data, cell.row + 1, <<>>)
        grown == [rows EXCEPT ![cell.row + 1] = ResizedTo(@, cell.col + 1, <<>>)]
    IN  [data |-> grown,
         col_widths |-> ResizedTo(s.col_widths, cell.col + 1, DEFAULT_COL_WIDTH)]

\* Spreadsheet::internal_set_cell
internal_set_cell(s, cell, value) ==
    LET r == resize_to_cell(s, cell)
    IN  [r EXCEPT !.data[cell.row + 1][cell.col + 1] = value]

\* SpreadsheetEdit
SpreadsheetEdit(cell, before, after) == [cell |-> cell, before |-> before, after |-> after]

\* PartialEq of SpreadsheetEdit, lifted to Vec<SpreadsheetEdit>
EditsEq(a, b) ==
    /\ Len(a) = Len(b)
    /\ \A i \in DOMAIN a : a[i].after = b[i].after /\ a[i].cell = b[i].cell

\* an edit recorded without emptying the redo stack
StackEdit_redo_kept(st, edit) ==
    IF st.undo # <<>> /\ EditsEq(Top(st.undo), edit) THEN st
    ELSE [undo |-> Append(st.undo, edit), redo |-> st.redo]

\* UndoStack::edit
StackEdit(st, edit) ==
    IF st.undo # <<>> /\ EditsEq(Top(st.undo), edit) THEN st
    ELSE [undo |-> Append(st.undo, edit), redo |-> <<>>]

\* UndoStack::undo: [some, edit, st]
StackUndo(st) ==
    IF st.undo = <<>> THEN [some |-> FALSE, edit |-> <<>>, st |-> st]
    ELSE [some |-> TRUE, edit |-> Top(st.undo),
          st |-> [undo |-> Pop(st.undo), redo |-> Append(st.redo, Top(st.undo))]]

\* a redo that forgets the entry it pops
StackRedo_dropped(st) ==
    IF st.redo = <<>> THEN [some |-> FALSE, edit |-> <<>>, st |-> st]
    ELSE [some |-> TRUE, edit |-> Top(st.redo),
          st |-> [undo |-> st.undo, redo |-> Pop(st.redo)]]

\* UndoStack::redo: [some, edit, st]
StackRedo(st) ==
    IF st.redo = <<>> THEN [some |-> FALSE, edit |-> <<>>, st |-> st]
    ELSE [some |-> TRUE, edit |-> Top(st.redo),
          st |-> [undo |-> Append(st.undo, Top(st.redo)), redo |-> Pop(st.redo)]]

\* Spreadsheet::set_cell: the spreadsheet and the stack after it
set_cell(s, st, cell, value) ==
    [s |-> internal_set_cell(s, cell, value),
     st |-> StackEdit(st, <<SpreadsheetEdit(cell,
                                IF in_spreadsheet(s, cell)
                                THEN s.data[cell.row + 1][cell.col + 1] ELSE <<>>,
                                value)>>)]

\* the cells of a matrix placed at start, row by row: <<cell, value>> pairs
RECURSIVE MatrixCells(_, _, _)
MatrixCells(start, mat, row) ==
    IF row >= Len(mat) THEN <<>>
    ELSE [col \in 1..Len(mat[row + 1]) |->
            [cell |-> SpreadsheetCell(start.row + row, start.col + col - 1),
             value |-> mat[row + 1][col]]]
         \o MatrixCells(start, mat, row + 1)

\* the loop of replace_matrix over the cells still to be written
RECURSIVE ReplaceCells(_, _, _)
ReplaceCells(s, todo, changes) ==
    IF todo = <<>> THEN [s |-> s, changes |-> changes]
    ELSE LET c == Head(todo)
         IN  ReplaceCells(internal_set_cell(s, c.cell, c.value), Tail(todo),
                          Append(changes, SpreadsheetEdit(c.cell, get_cell(s, c.cell),
                                                          c.value)))

\* Spreadsheet::replace_matrix
replace_matrix(s, st, start, mat) ==
    LET r == ReplaceCells(s, MatrixCells(start, mat, 0), <<>>)
    IN  [s |-> r.s, st |-> StackEdit(st, r.changes)]

\* the cells of an edit list set, one after the other, to before or to after
RECURSIVE ApplyEdits(_, _, _)
ApplyEdits(s, edits, field) ==
    IF edits = <<>> THEN s
    ELSE ApplyEdits(internal_set_cell(s, Head(edits).cell,
                                      IF field = "before" THEN Head(edits).before
                                      ELSE Head(edits).after),
                    Tail(edits), field)

SetMin(S) == CHOOSE x \in S : \A y \in S : x <= y
SetMax(S) == CHOOSE x \in S : \A y \in S : x >= y

\* the corners undo and redo return for an edit list
EditCorners(edits) ==
    LET rows == {edits[i].cell.row : i \in DOMAIN edits}
        cols == {edits[i].cell.col : i \in DOMAIN edits}
    IN  <<SpreadsheetCell(SetMin(rows), SetMin(cols)),
          SpreadsheetCell(SetMax(rows), SetMax(cols))>>

\* Spreadsheet::undo: [st |-> "None", "Some" or "Panic", s, stack, corners]
UndoRes(status, s, st, corners) ==
    [st |-> status, s |-> s, stack |-> st, corners |-> corners]

spreadsheet_undo(s, st) ==
    LET u == StackUndo(st)
    IN  CASE ~u.some -> UndoRes("None", s, st, <<>>)
          [] u.edit = <<>> -> UndoRes("Panic", s, u.st, <<>>)
          [] OTHER -> UndoRes("Some", ApplyEdits(s, u.edit, "before"), u.st,
                              EditCorners(u.edit))

\* Spreadsheet::redo
spreadsheet_redo(s, st) ==
    LET r == StackRedo(st)
    IN  CASE ~r.some -> UndoRes("None", s, st, <<>>)
          [] r.edit = <<>> -> UndoRes("Panic", s, r.st, <<>>)
          [] OTHER -> UndoRes("Some", ApplyEdits(s, r.edit, "after"), r.st,
                              EditCorners(r.edit))

\* Spreadsheet::get_col_width
get_col_width(s, cell) ==
    IF cell.col < Len(s.col_widths) THEN s.col_widths[cell.col + 1] ELSE DEFAULT_COL_WIDTH

\* Spreadsheet::set_col_width
set_col_width(s, cell, width) ==
    IF Len(s.col_widths) > cell.col THEN [s EXCEPT !.col_widths[cell.col + 1] = width]
    ELSE s

(***************************************************************************)
(* The application: App::run draws a frame and then handles one event,     *)
(* over and over.  phase is "render" before the draw and "event" before    *)
(* the event; a panic during either leaves "crashed", a loop that never    *)
(* ends leaves "hung".  last_event names the event handled last and        *)
(* n_events counts the events handled.  The formula cache maps a cell to   *)
(* the content of its evaluated token: a set of [cell, text] entries.      *)
(* The terminal is taken large enough to show every populated cell, so     *)
(* the scroll offsets stay 0 and are left out of the state.                *)
(***************************************************************************)
MaxEvents == 4
MaxEditorLen == 2

EditorKeys == {"=", "1"}
PasteTexts == {<<>>, <<"=", "2">>, <<"2", "\t", "=", "1">>, <<"1", "\n", "2">>}
InitGrids == {<<>>, << <<<<"=", "1">>, <<"1">>>> >>,
              << <<<<"=", "1", ":", "1">>, <<"=", "1">>>> >>}

\* str::split on a separator character
RECURSIVE SplitOn(_, _)
SplitOn(text, sep) ==
    IF \A i \in DOMAIN text : text[i] # sep THEN <<text>>
    ELSE LET i == CHOOSE k \in DOMAIN text :
                    text[k] = sep /\ \A j \in 1..(k - 1) : text[j] # sep
         IN  <<SubSeq(text, 1, i - 1)>> \o SplitOn(SubSeq(text, i + 1, Len(text)), sep)

\* the matrix a pasted text stands for: lines of tab-separated cells
PastedMatrix(text) ==
    LET lines == SplitOn(text, "\n")
    IN  [r \in DOMAIN lines |-> SplitOn(lines[r], "\t")]

\* InfiniteTableState::selection: the corners of the rectangle spanned by the
\* active cell and the selection end, the upper left one first
selection ==
    <<SpreadsheetCell(Min2(active_cell.row, selection_end.row),
                      Min2(active_cell.col, selection_end.col)),
      SpreadsheetCell(Max2(active_cell.row, selection_end.row),
                      Max2(active_cell.col, selection_end.col))>>

\* a matrix of rows x cols copies of one value
Filled(value, rows, cols) == [r \in 1..rows |-> [c \in 1..cols |-> value]]

\* a single pasted item is pasted to every cell of the selection
SpreadOverSelection(mat) ==
    IF Len(mat) = 1 /\ Len(mat[1]) = 1
    THEN Filled(mat[1][1], selection[2].row - selection[1].row + 1,
                selection[2].col - selection[1].col + 1)
    ELSE mat

\* balance_parens: the missing closing parentheses are appended
CountOf(text, c) == Cardinality({i \in DOMAIN text : text[i] = c})
balance_parens(text) ==
    text \o [i \in 1..Max2(0, CountOf(text, "(") - CountOf(text, ")")) |-> ")"]

\* InfiniteTableState::move_active_cell by one step
move_active_cell(cell, x, y) ==
    [row |-> CASE y > 0 /\ cell.row < SPREADSHEET_MAX_ROWS -> cell.row + 1
               [] y < 0 /\ cell.row > 0 -> cell.row - 1
               [] OTHER -> cell.row,
     col |-> CASE x > 0 /\ cell.col < SPREADSHEET_MAX_COLS -> cell.col + 1
               [] x < 0 /\ cell.col > 0 -> cell.col - 1
               [] OTHER -> cell.col]

\* the populated cells, row by row, as render_data visits them
RECURSIVE RowCells(_, _)
RowCells(s, row) ==
    IF row >= Len(s.data) THEN <<>>
    ELSE [c \in 1..Len(s.data[row + 1]) |-> SpreadsheetCell(row, c - 1)]
         \o RowCells(s, row + 1)

Cached(cache, cell) == \E e \in cache : e.cell = cell

RECURSIVE RenderCells(_, _, _)

\* a render_cell that caches the text of a failed evaluation as well
RenderFormula_failure_cached(s, cells, cache, v) ==
    IF v.st \in {"Ok", "Err"}
    THEN RenderCells(s, Tail(cells),
                     cache \cup {[cell |-> Head(cells), text |-> v.tok.content]})
    ELSE [st |-> v.st, cache |-> cache]

\* render_cell of a formula cell that is not cached, v its value, and the
\* cells after it
RenderFormula(s, cells, cache, v) ==
    CASE v.st = "Ok" ->
            RenderCells(s, Tail(cells),
                        cache \cup {[cell |-> Head(cells), text |-> v.tok.content]})
      [] v.st = "Err" -> RenderCells(s, Tail(cells), cache)
      [] OTHER -> [st |-> v.st, cache |-> cache]

\* render_cell over the cells still to be drawn:
\* [st |-> "Ok" or an abort, cache |-> the cache afterwards]
RenderCells(s, cells, cache) ==
    CASE cells = <<>> -> [st |-> "Ok", cache |-> cache]
      [] ~StartsWith(get_cell(s, Head(cells)), "=") \/ Cached(cache, Head(cells)) ->
            RenderCells(s, Tail(cells), cache)
      [] OTHER ->
            RenderFormula(s, cells, cache, get_cell_value(s, Head(cells), CellCount(s) + 2))

\* the frame is drawn: r is the outcome of render_cell over the grid
Drawn(r) ==
    /\ formula_cache' = r.cache
    /\ phase' = CASE r.st = "Ok" -> "event"
                  [] r.st = "Hang" -> "hung"
                  [] OTHER -> "crashed"

\* App::render_frame
Render ==
    /\ phase = "render"
    /\ editor_value' = IF focused_area = "Editor" THEN editor_value
                       ELSE get_cell(Sheet, active_cell)
    /\ Drawn(RenderCells(Sheet, RowCells(Sheet, 0), formula_cache))
    /\ UNCHANGED <<build, original, gridVars, evalVars, refVars, focused_area, active_cell, selection_end,
                   last_event, n_events>>

\* an event is read and handled
Handling(area) == phase = "event" /\ focused_area = area /\ n_events < MaxEvents
Handled(name) == phase' = "render" /\ last_event' = name /\ n_events' = n_events + 1

\* handle_data_event: the arrow keys, without Shift
KeyArrow ==
    /\ Handling("Data")
    /\ \E d \in {<<1, 0>>, <<-1, 0>>, <<0, 1>>, <<0, -1>>} :
          active_cell' = move_active_cell(active_cell, d[1], d[2])
    /\ selection_end' = active_cell'
    /\ Handled("move")
    /\ UNCHANGED <<build, original, gridVars, evalVars, refVars, focused_area, editor_value, formula_cache>>

\* handle_data_event: Enter and Shift+Enter
KeyEnterData ==
    /\ Handling("Data")
    /\ \E shift \in BOOLEAN :
          active_cell' =
              CASE shift /\ active_cell.row > 0 ->
                        [active_cell EXCEPT !.row = @ - 1]
                [] active_cell.row < SPREADSHEET_MAX_ROWS ->
                        [active_cell EXCEPT !.row = @ + 1]
                [] OTHER -> active_cell
    /\ Handled("move")
    /\ UNCHANGED <<build, original, gridVars, evalVars, refVars, focused_area, editor_value, selection_end,
                   formula_cache>>

\* handle_data_event: Tab and BackTab
KeyTab ==
    /\ Handling("Data")
    /\ \E back \in BOOLEAN :
          active_cell' =
              CASE ~back /\ active_cell.col < SPREADSHEET_MAX_COLS ->
                        [active_cell EXCEPT !.col = @ + 1]
                [] back /\ active_cell.col > 0 -> [active_cell EXCEPT !.col = @ - 1]
                [] OTHER -> active_cell
    /\ Handled("move")
    /\ UNCHANGED <<build, original, gridVars, evalVars, refVars, focused_area, editor_value, selection_end,
                   formula_cache>>

\* the grid and the stack become those of a mutator's outcome
Written(r) ==
    /\ data' = r.s.data
    /\ col_widths' = r.s.col_widths
    /\ undo' = r.st.undo
    /\ redo' = r.st.redo

\* the Super+Z arms on the outcome r of Spreadsheet::undo or Spreadsheet::redo
Restored(r, name) ==
    /\ CASE r.st = "Some" ->
                /\ Written([s |-> r.s, st |-> r.stack])
                /\ active_cell' = r.corners[1]
                /\ selection_end' = r.corners[2]
                /\ formula_cache' = {}
                /\ Handled(name)
         [] r.st = "None" ->
                /\ Handled(IF name = "redo" THEN "redo_none" ELSE "undo_none")
                /\ UNCHANGED <<gridVars, active_cell, selection_end, formula_cache>>
         [] OTHER ->
                /\ phase' = "crashed" /\ last_event' = name /\ n_events' = n_events + 1
                /\ UNCHANGED <<gridVars, active_cell, selection_end, formula_cache>>
    /\ UNCHANGED <<build, original, evalVars, refVars, focused_area, editor_value>>

\* handle_data_event: Super+Z
KeyUndo ==
    /\ Handling("Data")
    /\ Restored(spreadsheet_undo(Sheet, Stack), "undo")

\* handle_data_event: Super+Shift+Z
KeyRedo ==
    /\ Handling("Data")
    /\ Restored(spreadsheet_redo(Sheet, Stack), "redo")

\* handle_data_event: Ctrl+V with the clipboard holding a text or failing
KeyCtrlV ==
    /\ Handling("Data")
    /\ \/ \E text \in PasteTexts :
            /\ Written(replace_matrix(Sheet, Stack, selection[1],
                                      SpreadOverSelection(PastedMatrix(text))))
            /\ Handled("ctrl_v")
       \/ /\ Handled("ctrl_v_failed")
          /\ UNCHANGED gridVars
    /\ formula_cache' = {}
    /\ UNCHANGED <<build, original, evalVars, refVars, focused_area, editor_value, active_cell, selection_end>>

\* handle_data_event: Event::Paste, the bracketed paste of a terminal
BracketedPaste ==
    /\ Handling("Data")
    /\ \E text \in PasteTexts :
          IF text # <<>>
          THEN /\ Written(replace_matrix(Sheet, Stack, selection[1],
                                         SpreadOverSelection(PastedMatrix(text))))
               /\ Handled("paste")
          ELSE /\ Handled("paste_empty")
               /\ UNCHANGED gridVars
    /\ UNCHANGED <<build, original, evalVars, refVars, focused_area, editor_value, active_cell, selection_end,
                   formula_cache>>

\* handle_data_event: Backspace or Delete empties the selection
KeyDelete ==
    /\ Handling("Data")
    /\ Written(replace_matrix(Sheet, Stack, selection[1],
                              Filled(<<>>, selection[2].row - selection[1].row + 1,
                                     selection[2].col - selection[1].col + 1)))
    /\ formula_cache' = {}
    /\ Handled("delete")
    /\ UNCHANGED <<build, original, evalVars, refVars, focused_area, editor_value, active_cell, selection_end>>

\* handle_data_event: F9 forces a recompute
KeyF9 ==
    /\ Handling("Data")
    /\ formula_cache' = {}
    /\ Handled("f9")
    /\ UNCHANGED <<build, original, gridVars, evalVars, refVars, focused_area, editor_value, active_cell,
                   selection_end>>

\* handle_data_event: F2 opens the editor on the text of the active cell
KeyF2 ==
    /\ Handling("Data")
    /\ focused_area' = "Editor"
    /\ Handled("edit")
    /\ UNCHANGED <<build, original, gridVars, evalVars, refVars, editor_value, active_cell, selection_end,
                   formula_cache>>

\* handle_data_event: a character key opens the editor on that character
KeyCharData ==
    /\ Handling("Data")
    /\ \E c \in EditorKeys : editor_value' = <<c>>
    /\ focused_area' = "Editor"
    /\ Handled("edit")
    /\ UNCHANGED <<build, original, gridVars, evalVars, refVars, active_cell, selection_end, formula_cache>>

\* handle_editor_event: a character key, the cursor being at the end
KeyCharEditor ==
    /\ Handling("Editor")
    /\ Len(editor_value) < MaxEditorLen
    /\ \E c \in EditorKeys : editor_value' = Append(editor_value, c)
    /\ Handled("type")
    /\ UNCHANGED <<build, original, gridVars, evalVars, refVars, focused_area, active_cell, selection_end,
                   formula_cache>>

\* a commit that writes the editor text as it is, unbalanced
KeyEnterEditor_unbalanced ==
    /\ Handling("Editor")
    /\ focused_area' = "Data"
    /\ LET value == editor_value
           r == set_cell(Sheet, Stack, active_cell, value)
           widened == IF get_col_width(r.s, active_cell) < Len(editor_value)
                      THEN set_col_width(r.s, active_cell, Len(editor_value))
                      ELSE r.s
       IN  Written([s |-> widened, st |-> r.st])
    /\ formula_cache' = {}
    /\ \E shift \in BOOLEAN :
          active_cell' = move_active_cell(active_cell, 0, IF shift THEN -1 ELSE 1)
    /\ selection_end' = active_cell'
    /\ Handled("commit")
    /\ UNCHANGED <<build, original, evalVars, refVars, editor_value>>

\* handle_editor_event: Enter and Shift+Enter commit the editor text
KeyEnterEditor ==
    /\ Handling("Editor")
    /\ focused_area' = "Data"
    /\ LET value == IF StartsWith(editor_value, "=") THEN balance_parens(editor_value)
                    ELSE editor_value
           r == set_cell(Sheet, Stack, active_cell, value)
           widened == IF get_col_width(r.s, active_cell) < Len(editor_value)
                      THEN set_col_width(r.s, active_cell, Len(editor_value))
                      ELSE r.s
       IN  Written([s |-> widened, st |-> r.st])
    /\ formula_cache' = {}
    /\ \E shift \in BOOLEAN :
          active_cell' = move_active_cell(active_cell, 0, IF shift THEN -1 ELSE 1)
    /\ selection_end' = active_cell'
    /\ Handled("commit")
    /\ UNCHANGED <<build, original, evalVars, refVars, editor_value>>

\* an Esc that also drops the cached values
KeyEsc_cache_cleared ==
    /\ Handling("Editor")
    /\ focused_area' = "Data"
    /\ formula_cache' = {}
    /\ Handled("esc")
    /\ UNCHANGED <<build, original, gridVars, evalVars, refVars, editor_value, active_cell, selection_end>>

\* handle_editor_event: Esc leaves the editor
KeyEsc ==
    /\ Handling("Editor")
    /\ focused_area' = "Data"
    /\ Handled("esc")
    /\ UNCHANGED <<build, original, gridVars, evalVars, refVars, editor_value, active_cell, selection_end,
                   formula_cache>>

\* main: the application starts on an empty or a loaded spreadsheet
Init ==
    /\ build \in {"debug", "release"}
    /\ data \in InitGrids
    /\ undo = <<>> /\ redo = <<>> /\ col_widths = NewColWidths
    /\ AppNew
    /\ EvalIdle
    /\ RefIdle
    /\ original = data

Next ==
    \/ Render
    \/ KeyArrow \/ KeyEnterData \/ KeyTab
    \/ KeyUndo \/ KeyRedo
    \/ KeyCtrlV \/ BracketedPaste \/ KeyDelete
    \/ KeyF9 \/ KeyF2 \/ KeyCharData
    \/ KeyCharEditor \/ KeyEnterEditor \/ KeyEsc

Spec == Init /\ [][Next]_vars

\* the events that write cells
WriteEvents == {"commit", "ctrl_v", "paste", "delete", "undo", "redo"}

\* C1: after every event that writes a cell (editor commit, Ctrl+V, bracketed
\* paste, Backspace/Delete, a successful undo or redo) the formula cache is
\* empty before the next render.
C1_CacheEmptyAfterWrite ==
    (phase = "render" /\ last_event \in WriteEvents) => formula_cache = {}

\* the value render_cell computes for a cell of the grid
RenderedValue(cell) == get_cell_value(Sheet, cell, CellCount(Sheet) + 2)

\* the populated cells that hold a formula
FormulaCells == {c \in Range(RowCells(Sheet, 0)) : StartsWith(get_cell(Sheet, c), "=")}

\* C24: a formula cell whose evaluation fails gets no cache entry, and every
\* entry written to the cache belongs to a cell whose evaluation succeeded
\* at the time it was written and holds the content of that value.
C24_CacheHoldsSuccesses ==
    [][/\ \A e \in formula_cache' \ formula_cache :
              /\ e.cell \in FormulaCells
              /\ RenderedValue(e.cell).st = "Ok"
              /\ e.text = RenderedValue(e.cell).tok.content
       /\ \A c \in FormulaCells :
              (phase = "render" /\ RenderedValue(c).st = "Err" /\ ~Cached(formula_cache, c))
                  => ~Cached(formula_cache', c)]_vars

\* a frame has been drawn over a row holding =1:1, which fails, and =1: only
\* the second cell is cached
C24_Witness ==
    /\ phase = "event"
    /\ Len(data) = 1 /\ Len(data[1]) = 2
    /\ RenderedValue(SpreadsheetCell(0, 0)).st = "Err"
    /\ formula_cache = {[cell |-> SpreadsheetCell(0, 1), text |-> <<"1">>]}

(***************************************************************************)
(* The commit of an editor text: the editor holds a text, Enter commits    *)
(* it, the frame is drawn, and the committed cell may be edited again.     *)
(***************************************************************************)
MaxParens == 3

ParenAlphabet == {"(", ")", "1"}
EditorTexts ==
    {<<"=">> \o t : t \in UNION {[1..n -> ParenAlphabet] : n \in 0..MaxParens}}
    \cup {<<"(">>}

EditInit ==
    /\ build \in {"debug", "release"}
    /\ data = <<>> /\ undo = <<>> /\ redo = <<>> /\ col_widths = NewColWidths
    /\ focused_area = "Editor"
    /\ editor_value \in EditorTexts
    /\ active_cell = SpreadsheetCell(0, 0)
    /\ selection_end = SpreadsheetCell(0, 0)
    /\ formula_cache = {}
    /\ phase = "event"
    /\ last_event = "type"
    /\ n_events = 0
    /\ EvalIdle
    /\ RefIdle
    /\ original = data

EditNext == KeyEnterEditor \/ Render \/ KeyArrow \/ KeyF2

EditSpec == EditInit /\ [][EditNext]_vars

\* the step commits a formula text from the editor
CommitsFormula ==
    /\ phase = "event" /\ focused_area = "Editor"
    /\ last_event' = "commit" /\ n_events' = n_events + 1
    /\ StartsWith(editor_value, "=")

\* the text of the active cell after the step
Committed == data'[active_cell.row + 1][active_cell.col + 1]

\* y is x followed by closing parentheses only
OnlyAppends(x, y) ==
    /\ Len(y) >= Len(x)
    /\ SubSeq(y, 1, Len(x)) = x
    /\ \A i \in (Len(x) + 1)..Len(y) : y[i] = ")"

Balanced(y) == CountOf(y, "(") = CountOf(y, ")")

C25_CommittedTwice ==
    /\ phase = "render" /\ last_event = "commit" /\ n_events > 1
    /\ editor_value = <<"=", "(", "1", ")">>
    /\ data = << <<editor_value>> >>

(***************************************************************************)
(* The calls on a Spreadsheet: set_cell, replace_matrix, undo and redo, in *)
(* any order, on a grid as from_csv leaves it.  last_event is the last     *)
(* call with its outcome, n_events the number of calls.                    *)
(***************************************************************************)
MaxCalls == 4

CallGrids == {<<>>, << <<<<"a">>, <<"b">>>>, <<<<"b">>>> >>}
CallCells == {SpreadsheetCell(0, 0), SpreadsheetCell(1, 1)}
CallValues == {<<"a">>, <<"b">>}
CallMatrices == {<<>>, << <<<<"a">>, <<"b">>>> >>, << <<<<"b">>>>, <<<<>>>> >>}

SheetInit ==
    /\ build \in {"debug", "release"}
    /\ data \in CallGrids
    /\ undo = <<>> /\ redo = <<>> /\ col_widths = NewColWidths
    /\ focused_area = "Data"
    /\ editor_value = <<>>
    /\ active_cell = SpreadsheetCell(0, 0)
    /\ selection_end = SpreadsheetCell(0, 0)
    /\ formula_cache = {}
    /\ phase = "event"
    /\ last_event = "none"
    /\ n_events = 0
    /\ EvalIdle
    /\ RefIdle
    /\ original = data

\* a call is made, and returns
Calling == phase = "event" /\ n_events < MaxCalls
Called(name) ==
    /\ last_event' = name /\ n_events' = n_events + 1
    /\ UNCHANGED <<build, original, evalVars, refVars, focused_area, editor_value, active_cell,
                   selection_end, formula_cache>>

\* Spreadsheet::set_cell
SetCellCall ==
    /\ Calling
    /\ \E cell \in CallCells, value \in CallValues :
          Written(set_cell(Sheet, Stack, cell, value))
    /\ phase' = phase
    /\ Called("set_cell")

\* Spreadsheet::replace_matrix
ReplaceMatrixCall ==
    /\ Calling
    /\ \E mat \in CallMatrices :
          Written(replace_matrix(Sheet, Stack, SpreadsheetCell(0, 0), mat))
    /\ phase' = phase
    /\ Called("replace_matrix")

\* the outcome r of Spreadsheet::undo or Spreadsheet::redo, called name
Returns(r, name) ==
    /\ IF r.st = "Some" THEN Written([s |-> r.s, st |-> r.stack])
       ELSE /\ data' = data /\ col_widths' = col_widths
            /\ undo' = r.stack.undo /\ redo' = r.stack.redo
    /\ phase' = IF r.st = "Panic" THEN "crashed" ELSE phase
    /\ Called(CASE r.st = "Some" -> name
                [] r.st = "None" -> name \o "_none"
                [] OTHER -> name \o "_panic")

\* Spreadsheet::undo
UndoCall == Calling /\ Returns(spreadsheet_undo(Sheet, Stack), "undo")

\* Spreadsheet::redo
RedoCall == Calling /\ Returns(spreadsheet_redo(Sheet, Stack), "redo")

SheetNext == SetCellCall \/ ReplaceMatrixCall \/ UndoCall \/ RedoCall

SheetSpec == SheetInit /\ [][SheetNext]_vars

\* the addresses a call can have written
ReadCells == {SpreadsheetCell(r, c) : r \in 0..SPREADSHEET_MAX_ROWS, c \in 0..SPREADSHEET_MAX_COLS}

\* the texts of a spreadsheet as get_cell reads them
Reads(s) == [c \in ReadCells |-> get_cell(s, c)]

OriginalSheet == [data |-> original, col_widths |-> NewColWidths]

EmptyEditRecorded == \E i \in 1..Len(undo) : undo[i] = <<>>

\* C34, auxiliary: the texts are restored whenever the undo stack is empty,
\* and undo aborts only on an edit that holds no cell
C34_UndoInvertsWrittenCells ==
    /\ [](undo = <<>> => Reads(Sheet) = Reads(OriginalSheet))
    /\ [][last_event' = "undo_panic" => EmptyEditRecorded]_vars

(***************************************************************************)
(* C35: undo followed by redo is the identity.  Where undo returns Some,   *)
(* undo and then redo give back every cell's text and both stacks; a call  *)
(* of undo or redo moves exactly one entry from one stack to the other;    *)
(* and on an empty stack the call returns None and changes neither the     *)
(* grid nor the stacks.                                                    *)
(***************************************************************************)
\* redo called on what undo returned as u
RedoOf(u) == spreadsheet_redo(u.s, u.stack)

\* redo after the undo that returned u gives the texts of s and the stack st back
RoundTrip(u, r, s, st) ==
    u.st = "Some" => /\ r.st = "Some"
                     /\ Reads(r.s) = Reads(s)
                     /\ r.stack = st

UndoThenRedo(u) == RoundTrip(u, RedoOf(u), Sheet, Stack)

\* this step is a call of undo, or of redo
UndoStep == n_events' = n_events + 1 /\ last_event' \in {"undo", "undo_none", "undo_panic"}
RedoStep == n_events' = n_events + 1 /\ last_event' \in {"redo", "redo_none", "redo_panic"}

OneEntryMoves ==
    /\ UndoStep /\ undo # <<>> =>
          /\ undo' = Pop(undo)
          /\ redo' = Append(redo, Top(undo))
    /\ RedoStep /\ redo # <<>> =>
          /\ redo' = Pop(redo)
          /\ undo' = Append(undo, Top(redo))

NoneOnEmpty ==
    /\ UndoStep /\ undo = <<>> =>
          last_event' = "undo_none" /\ UNCHANGED <<data, undo, redo>>
    /\ RedoStep /\ redo = <<>> =>
          last_event' = "redo_none" /\ UNCHANGED <<data, undo, redo>>

C35_UndoRedoIdentity ==
    /\ [](UndoThenRedo(spreadsheet_undo(Sheet, Stack)))
    /\ [][OneEntryMoves /\ NoneOnEmpty]_vars

\* redo has brought back an edit of two cells after its undo, on top of an
\* earlier edit
C35_Witness ==
    /\ last_event = "redo"
    /\ Len(undo) = 2 /\ redo = <<>>
    /\ Len(Top(undo)) = 2
    /\ Reads(Sheet) # Reads(OriginalSheet)

(***************************************************************************)
(* C36: a write whose edit differs from the entry on top of the undo       *)
(* stack pushes the edit and empties the redo stack, and the redo stack    *)
(* stays empty until the next undo; a write whose edit equals the top      *)
(* entry (same cells, same new values) leaves both stacks and every        *)
(* cell's text unchanged.                                                  *)
(***************************************************************************)
\* this step is the write that returned r
WriteStep(name, r) ==
    /\ n_events' = n_events + 1 /\ last_event' = name
    /\ data' = r.s.data /\ undo' = r.st.undo /\ redo' = r.st.redo

\* what the write of edit did to the stacks and to the texts
Recorded(edit) ==
    IF undo # <<>> /\ EditsEq(Top(undo), edit)
    THEN /\ undo' = undo /\ redo' = redo
         /\ Reads(Sheet') = Reads(Sheet)
    ELSE /\ undo' = Append(undo, edit)
         /\ redo' = <<>>

\* the edit list replace_matrix collects
Changes(start, mat) == ReplaceCells(Sheet, MatrixCells(start, mat, 0), <<>>).changes

EditRecorded ==
    /\ \A cell \in CallCells, value \in CallValues :
          WriteStep("set_cell", set_cell(Sheet, Stack, cell, value))
             => Recorded(<<SpreadsheetEdit(cell, get_cell(Sheet, cell), value)>>)
    /\ \A mat \in CallMatrices :
          WriteStep("replace_matrix", replace_matrix(Sheet, Stack, SpreadsheetCell(0, 0), mat))
             => Recorded(Changes(SpreadsheetCell(0, 0), mat))

\* the redo stack gets its first entry from undo only
RedoFilledByUndo == redo = <<>> /\ redo' # <<>> => UndoStep

C36_EditRecorded == [][EditRecorded /\ RedoFilledByUndo]_vars

\* B2 was written on the empty grid and the write undone, which left the
\* cell in place with its old text; the write of A1 that followed was pushed
\* and emptied the redo stack
C36_Witness ==
    /\ original = <<>>
    /\ last_event = "set_cell"
    /\ Len(undo) = 1 /\ redo = <<>>
    /\ in_spreadsheet(Sheet, SpreadsheetCell(1, 1))
    /\ get_cell(Sheet, SpreadsheetCell(1, 1)) = <<>>
    /\ get_cell(Sheet, SpreadsheetCell(0, 0)) # <<>>

(***************************************************************************)
(* C37: Esc in the editor returns the focus to the Data area and changes   *)
(* no cell text, no undo or redo entry and no cache entry; Enter writes    *)
(* the editor text (passed through balance_parens when it starts with `=`) *)
(* to the active cell only, records exactly one undo entry, clears the     *)
(* cache and returns the focus to the Data area.                           *)
(***************************************************************************)
\* the text stored at cell c of the rows d
TextAt(d, c) ==
    IF c.row < Len(d) /\ c.col < Len(d[c.row + 1]) THEN d[c.row + 1][c.col + 1] ELSE <<>>

\* this step handles Esc, or Enter, in the editor
EscStep ==
    /\ phase = "event" /\ focused_area = "Editor"
    /\ last_event' = "esc" /\ n_events' = n_events + 1
EnterStep ==
    /\ phase = "event" /\ focused_area = "Editor"
    /\ last_event' = "commit" /\ n_events' = n_events + 1

\* the text Enter writes
EnteredText ==
    IF StartsWith(editor_value, "=") THEN balance_parens(editor_value) ELSE editor_value

EscDiscards ==
    EscStep => /\ focused_area' = "Data"
               /\ UNCHANGED <<data, undo, redo, formula_cache>>

\* Enter wrote text to the active cell only, and left the editor
EnterWrites(text) ==
    /\ focused_area' = "Data"
    /\ formula_cache' = {}
    /\ TextAt(data', active_cell) = text
    /\ \A c \in ReadCells \ {active_cell} : TextAt(data', c) = TextAt(data, c)

\* exactly the entry of this write has been pushed
OneEntry(text) ==
    undo' = Append(undo, <<SpreadsheetEdit(active_cell, get_cell(Sheet, active_cell), text)>>)

\* the top entry is a write of text to the active cell
Repeats(text) ==
    /\ undo # <<>>
    /\ Len(Top(undo)) = 1
    /\ Top(undo)[1].cell = active_cell /\ Top(undo)[1].after = text

C37_EnterRecordsOneEntry ==
    [][/\ EscDiscards
       /\ EnterStep => EnterWrites(EnteredText) /\ OneEntry(EnteredText)]_vars

\* C37, amended: Esc in the editor returns the focus to the Data area and
\* changes no cell text, no undo or redo entry and no cache entry; Enter
\* writes the editor text (passed through balance_parens when it starts
\* with `=`) to the active cell only, clears the cache and returns the
\* focus to the Data area, and it records exactly one undo entry unless
\* the entry on top of the undo stack is already a write of that text to
\* that cell, in which case both stacks stay as they are.
C37_EnterRecordsUnlessRepeated ==
    [][/\ EscDiscards
       /\ EnterStep =>
             /\ EnterWrites(EnteredText)
             /\ IF Repeats(EnteredText) THEN UNCHANGED <<undo, redo>>
                ELSE OneEntry(EnteredText)]_vars

\* Enter has committed a text to A1 with one entry recorded, and a later
\* Esc has left the editor with the entry and the cached values in place
C37_Witness ==
    /\ last_event = "esc" /\ focused_area = "Data"
    /\ Len(undo) = 1 /\ Len(undo[1]) = 1
    /\ undo[1][1].cell = SpreadsheetCell(0, 0)
    /\ formula_cache # {}

(***************************************************************************)
(* C38: after any navigation events the active cell is a valid grid        *)
(* address: its row is at least 0 and below the row limit, its column at   *)
(* least 0 and below the column limit.                                     *)
(***************************************************************************)
C38_ActiveCellValid ==
    /\ active_cell.row \in 0..(SPREADSHEET_MAX_ROWS - 1)
    /\ active_cell.col \in 0..(SPREADSHEET_MAX_COLS - 1)

\* C38, auxiliary: no coordinate goes below 0 or beyond the limit itself
C38_ActiveCellAtMostLimit ==
    /\ active_cell.row \in 0..SPREADSHEET_MAX_ROWS
    /\ active_cell.col \in 0..SPREADSHEET_MAX_COLS

(***************************************************************************)
(* The `+` and `-` keys of the Data area, which widen and narrow the       *)
(* column of the active cell by one.  A width is a u16: an addition or     *)
(* subtraction that leaves the range panics in a debug build and wraps in  *)
(* a release build.                                                        *)
(***************************************************************************)
MaxPresses == 12

U16Max == 2^16 - 1

\* a + d on u16, for d = 1 or d = -1: [st, v]
U16Plus(a, d) ==
    IF a + d \in 0..U16Max THEN [st |-> "Ok", v |-> a + d]
    ELSE IF build = "debug" THEN [st |-> "Panic", v |-> a]
    ELSE [st |-> "Overflow", v |-> (a + d) % (U16Max + 1)]

Pressing == phase = "event" /\ focused_area = "Data" /\ n_events < MaxPresses

\* the arm of `+` or `-` once the new width w is computed
Resized(w, name) ==
    /\ col_widths' = IF w.st = "Panic" THEN col_widths
                     ELSE set_col_width(Sheet, active_cell, w.v).col_widths
    /\ phase' = IF w.st = "Panic" THEN "crashed" ELSE "render"
    /\ last_event' = IF w.st = "Ok" THEN name ELSE name \o "_" \o w.st
    /\ n_events' = n_events + 1
    /\ UNCHANGED <<build, original, data, undo, redo, evalVars, refVars, focused_area,
                   editor_value, active_cell, selection_end, formula_cache>>

\* handle_data_event: `+`
KeyPlus == Pressing /\ Resized(U16Plus(get_col_width(Sheet, active_cell), 1), "plus")

\* handle_data_event: `-`
KeyMinus == Pressing /\ Resized(U16Plus(get_col_width(Sheet, active_cell), -1), "minus")

WidthInit ==
    /\ build \in {"debug", "release"}
    /\ data = <<>>
    /\ undo = <<>> /\ redo = <<>> /\ col_widths = NewColWidths
    /\ AppNew
    /\ EvalIdle
    /\ RefIdle
    /\ original = data

WidthNext == Render \/ KeyTab \/ KeyPlus \/ KeyMinus

WidthSpec == WidthInit /\ [][WidthNext]_vars

\* C39: after any presses of `+` and `-` in the Data area no width
\* computation has left the 16-bit unsigned range, neither below 0 nor
\* above 65535, and every column width is within [0, 65535].
C39_WidthsInRange ==
    /\ last_event \notin {"minus_Panic", "minus_Overflow", "plus_Panic", "plus_Overflow"}
    /\ \A i \in DOMAIN col_widths : col_widths[i] \in 0..U16Max

\* C39, auxiliary: the stored widths are within [0, 65535], the computation
\* leaves the range only from width 0 downwards or from width 65535 upwards,
\* and a release build then stores the wrapped value
C39_WidthsWrap ==
    /\ [](\A i \in DOMAIN col_widths : col_widths[i] \in 0..U16Max)
    /\ [][/\ last_event' \in {"minus_Panic", "minus_Overflow"} /\ n_events' # n_events
             => get_col_width(Sheet, active_cell) = 0
          /\ last_event' = "minus_Overflow" /\ n_events' # n_events
             => get_col_width(Sheet', active_cell) = U16Max
          /\ last_event' \in {"plus_Panic", "plus_Overflow"} /\ n_events' # n_events
             => get_col_width(Sheet, active_cell) = U16Max]_vars

=============================================================================
